---- MODULE Spec2Model ----
(***************************************************************************)
(* Device telemetry ingestion pipeline of gps-tracker: protocol adapters   *)
(* (protocols.py), the TCP connection server (gps_server.py), the storage  *)
(* call save_position (database.py) and the live broadcaster (api.py).     *)
(*                                                                         *)
(* Text is modelled character by character: a Python str is a sequence of  *)
(* one-character strings, a Python bytes object is a sequence of integers  *)
(* 0..255.  A Python float is modelled by its value in millionths (an      *)
(* integer), which is exact for every decimal with at most six fractional  *)
(* digits; the inputs of the model stay inside that range.  An optional    *)
(* value (x | None) is the tuple <<x>> or the empty tuple <<>>.            *)
(***************************************************************************)
EXTENDS Integers, Sequences, FiniteSets, TLC

VARIABLES
    stream,         \* per connection: bytes sent by the peer, not yet read
    peer_eof,       \* per connection: the peer has closed its side
    task,           \* per connection: state of its handle_client task
    transport_closed, \* per connection: the server side of the transport is closed
    sent,           \* per connection: the chunks its device has written, in order
    log,            \* per connection: what happened to each line it read
    positions,      \* rows of the positions table, in commit order
    _connections,   \* LiveBroadcaster._connections
    ws_messages,    \* per websocket: payloads received through send_json
    _event_queue,   \* LiveBroadcaster._event_queue
    broadcasts,     \* per call of broadcast: where the coroutine is, its locals
    attempts,       \* per websocket: the payloads send_json was called with
    accepts,        \* how many times register has been called
    unregistered,   \* the last unregister of websocket_positions: what it found
    _getters,       \* asyncio.Queue._getters of _event_queue: who waits in get
    sse,            \* per stream consumer: where its sse_stream generator is
    yielded,        \* per stream consumer: the events its generator yielded
    _client,        \* NotificationQueue._client: "redis", "none", "" before __init__
    redis_pending,  \* the Redis list notifications:pending
    _memory_queue,  \* NotificationQueue._memory_queue
    nq_getters,     \* asyncio.Queue._getters of _memory_queue
    procs,          \* per dequeue caller and per worker task: where it is
    enqueued,       \* the messages enqueue was called with, in order
    results,        \* the messages dequeue returned, in order
    _worker_task,   \* NotificationService._worker_task (0 is None)
    starts,         \* how many times start_worker has been called
    invoked,        \* per provider: the calls of its send and their outcome
    dispatched,     \* the calls of dispatch and their outcome
    call,           \* direct decoder call: the call being evaluated
    result,         \* direct decoder call: what the call returned
    ingests,        \* the calls of ingest_http, in order: input and outcome
    _counters,      \* RequestRateLimiter._counters
    utc_now,        \* the clock of the rate limiter, in seconds
    allows,         \* the calls of allow, in order: input and result
    login_attempts, \* auth_limit.login_attempts
    time_now,       \* the clock of the login limiter, in seconds
    logins          \* the calls of limit_login_attempts, in order

vars == <<stream, peer_eof, task, transport_closed, sent, log, positions,
          _connections, ws_messages, _event_queue, broadcasts, attempts,
          accepts, unregistered, _getters, sse, yielded, _client,
          redis_pending, _memory_queue, nq_getters, procs, enqueued, results,
          _worker_task, starts, invoked, dispatched, call, result, ingests,
          _counters, utc_now, allows, login_attempts, time_now, logins>>

----------------------------------------------------------------------------
(* Characters and bytes *)

\* the printable ASCII characters, code 32 (space) to 126 (~); "<96>" stands
\* for the grave accent, which the TLA+ lexer does not accept in a string
Ascii ==
    <<" ", "!", "\"", "#", "$", "%", "&", "'", "(", ")", "*", "+", ",", "-",
      ".", "/", "0", "1", "2", "3", "4", "5", "6", "7", "8", "9", ":", ";",
      "<", "=", ">", "?", "@", "A", "B", "C", "D", "E", "F", "G", "H", "I",
      "J", "K", "L", "M", "N", "O", "P", "Q", "R", "S", "T", "U", "V", "W",
      "X", "Y", "Z", "[", "\\", "]", "^", "_", "<96>", "a", "b", "c", "d", "e",
      "f", "g", "h", "i", "j", "k", "l", "m", "n", "o", "p", "q", "r", "s",
      "t", "u", "v", "w", "x", "y", "z", "{", "|", "}", "~">>

Range(s) == {s[i] : i \in 1..Len(s)}

\* ord(c) for the characters of the model
Ord(c) ==
    IF c = "\n" THEN 10
    ELSE IF c = "\t" THEN 9
    ELSE IF c = "\r" THEN 13
    ELSE 31 + (CHOOSE i \in 1..Len(Ascii) : Ascii[i] = c)

\* chr(b) for an ASCII byte
Chr(b) ==
    IF b = 10 THEN "\n"
    ELSE IF b = 9 THEN "\t"
    ELSE IF b = 13 THEN "\r"
    ELSE Ascii[b - 31]

IsAsciiByte(b) == b \in {9, 10, 13} \/ (b >= 32 /\ b <= 126)

\* str.encode() of an ASCII string
Encode(s) == [i \in 1..Len(s) |-> Ord(s[i])] \o <<>>

\* an exception of the given class, or a returned value
Raise(e) == [exc |-> e, val |-> <<>>]
Return(v) == [exc |-> "", val |-> <<v>>]
Raised(r) == r.exc # ""
Value(r) == r.val[1]

\* bytes.decode(): UTF-8, strict.  Every byte of the model is ASCII or one
\* that no UTF-8 text contains (0x80..0xFF standing alone), which is an error.
BytesDecode(data) ==
    IF \A i \in 1..Len(data) : IsAsciiByte(data[i])
    THEN Return([i \in 1..Len(data) |-> Chr(data[i])] \o <<>>)
    ELSE Raise("UnicodeDecodeError")

\* bytes.decode(errors="ignore"): undecodable bytes are dropped
BytesDecodeIgnore(data) ==
    LET kept == SelectSeq(data, IsAsciiByte)
    IN [i \in 1..Len(kept) |-> Chr(kept[i])] \o <<>>

Whitespace == {" ", "\t", "\n", "\r"}

LStrip(s) ==
    LET n == Len(s)
        k == IF \A i \in 1..n : s[i] \in Whitespace THEN n + 1
             ELSE CHOOSE i \in 1..n :
                    s[i] \notin Whitespace /\ \A j \in 1..(i - 1) : s[j] \in Whitespace
    IN SubSeq(s, k, n)

RStrip(s) ==
    LET n == Len(s)
        k == IF \A i \in 1..n : s[i] \in Whitespace THEN 0
             ELSE CHOOSE i \in 1..n :
                    s[i] \notin Whitespace /\ \A j \in (i + 1)..n : s[j] \in Whitespace
    IN SubSeq(s, 1, k)

\* str.strip()
Strip(s) == RStrip(LStrip(s))

\* index of the first occurrence of character c in s, 0 when there is none
Find(s, c) ==
    LET at == {i \in 1..Len(s) : s[i] = c}
    IN IF at = {} THEN 0 ELSE CHOOSE i \in at : \A j \in at : i <= j

\* str.split(sep) for a one-character separator: always at least one part
RECURSIVE Split(_, _)
Split(s, sep) ==
    LET k == Find(s, sep) IN
    IF k = 0 THEN <<s>>
    ELSE <<SubSeq(s, 1, k - 1)>> \o Split(SubSeq(s, k + 1, Len(s)), sep)

\* (a variant that cuts at the last separator, as str.rsplit(sep, 1) does)
SplitLast(s, sep) ==
    LET at == {i \in 1..Len(s) : s[i] = sep}
        k == IF at = {} THEN 0 ELSE CHOOSE i \in at : \A j \in at : i >= j
    IN IF k = 0 THEN <<s>>
       ELSE <<SubSeq(s, 1, k - 1), SubSeq(s, k + 1, Len(s))>>

\* str.split(sep, 1): cut at the first separator only
SplitOnce(s, sep) ==
    LET k == Find(s, sep) IN
    IF k = 0 THEN <<s>>
    ELSE <<SubSeq(s, 1, k - 1), SubSeq(s, k + 1, Len(s))>>

\* str.lower() on ASCII
LowerChar(c) ==
    IF c \in Whitespace THEN c
    ELSE IF Ord(c) \in 65..90 THEN Chr(Ord(c) + 32) ELSE c

Lower(s) == [i \in 1..Len(s) |-> LowerChar(s[i])] \o <<>>

----------------------------------------------------------------------------
(* Numbers *)

Digits == <<"0", "1", "2", "3", "4", "5", "6", "7", "8", "9">>
IsDigit(c) == c \in Range(Digits)
DigitVal(c) == (CHOOSE i \in 1..10 : Digits[i] = c) - 1
AllDigits(s) == \A i \in 1..Len(s) : IsDigit(s[i])

RECURSIVE DigitsToNat(_)
DigitsToNat(s) ==
    IF s = <<>> THEN 0
    ELSE 10 * DigitsToNat(SubSeq(s, 1, Len(s) - 1)) + DigitVal(s[Len(s)])

RECURSIVE NatToDigits(_)
NatToDigits(n) ==
    IF n < 10 THEN <<Digits[n + 1]>>
    ELSE NatToDigits(n \div 10) \o <<Digits[(n % 10) + 1]>>

RECURSIVE Pow10(_)
Pow10(k) == IF k = 0 THEN 1 ELSE 10 * Pow10(k - 1)

\* the fixed-point scale of the binary variant, also the unit of every float
\* of the model
Million == 1000000

\* value in millionths of an unsigned decimal "ddd", "ddd.", ".ddd", "ddd.ddd"
UnsignedMicro(ip, fp) ==
    LET f == IF Len(fp) > 6 THEN SubSeq(fp, 1, 6) ELSE fp
    IN DigitsToNat(ip) * Million + DigitsToNat(f) * Pow10(6 - Len(f))

\* float(s) for a str: surrounding whitespace, an optional sign, digits with
\* an optional point.  <<>> is ValueError.  (Exponents, inf, nan and digit
\* underscores are outside the inputs of the model.)
ParseFloat(s) ==
    LET t == Strip(s)
        signed == t # <<>> /\ Head(t) \in {"+", "-"}
        body == IF signed THEN Tail(t) ELSE t
        k == Find(body, ".")
        ip == IF k = 0 THEN body ELSE SubSeq(body, 1, k - 1)
        fp == IF k = 0 THEN <<>> ELSE SubSeq(body, k + 1, Len(body))
    IN IF AllDigits(ip) /\ AllDigits(fp) /\ Len(ip) + Len(fp) > 0
       THEN <<(IF signed /\ Head(t) = "-" THEN -1 ELSE 1) * UnsignedMicro(ip, fp)>>
       ELSE <<>>

RECURSIVE StripZeros(_)
StripZeros(s) ==
    IF Len(s) > 1 /\ s[Len(s)] = "0" THEN StripZeros(SubSeq(s, 1, Len(s) - 1)) ELSE s

\* n as exactly k digits, zero padded on the left
RECURSIVE PadDigits(_, _)
PadDigits(n, k) ==
    IF k = 0 THEN <<>> ELSE PadDigits(n \div 10, k - 1) \o <<Digits[(n % 10) + 1]>>

\* repr(x) of a float x given in millionths: shortest decimal, always with a
\* point (40.0, -3.5).  (Magnitudes below 1e-4 or from 1e16, which repr
\* prints with an exponent, are outside the inputs of the model.)
FormatFloat(v) ==
    LET a == IF v < 0 THEN -v ELSE v
    IN (IF v < 0 THEN <<"-">> ELSE <<>>)
       \o NatToDigits(a \div Million) \o <<".">>
       \o StripZeros(PadDigits(a % Million, 6))

----------------------------------------------------------------------------
(* json.loads, for the documents the tag-value variant reads: one scalar   *)
(* (string, number without exponent, null, true, false) or                 *)
(* one object of such scalars.  Arrays and nested objects are outside the  *)
(* inputs of the model.                                                    *)

JNull == [t |-> "null", v |-> <<>>]
JStr(s) == [t |-> "str", v |-> s]
JInt(n) == [t |-> "int", v |-> <<n>>]
JFloat(m) == [t |-> "float", v |-> <<m>>]
JBool(b) == [t |-> "bool", v |-> <<b>>]
JObj(pairs) == [t |-> "obj", v |-> pairs]

Tok(k, v) == [k |-> k, v |-> v]
ErrTok == Tok("error", JNull)

NumberChars == Range(Digits) \cup {"-", "+", "."}

\* length of the longest prefix of s made of characters of set cs
PrefixLen(s, cs) ==
    IF \A i \in 1..Len(s) : s[i] \in cs THEN Len(s)
    ELSE (CHOOSE i \in 1..Len(s) :
            s[i] \notin cs /\ \A j \in 1..(i - 1) : s[j] \in cs) - 1

StartsWith(s, p) == Len(s) >= Len(p) /\ SubSeq(s, 1, Len(p)) = p

\* a JSON number: -?(0|[1-9][0-9]*)(\.[0-9]+)?
JsonNumber(s) ==
    LET neg == s # <<>> /\ Head(s) = "-"
        body == IF neg THEN Tail(s) ELSE s
        k == Find(body, ".")
        ip == IF k = 0 THEN body ELSE SubSeq(body, 1, k - 1)
        fp == IF k = 0 THEN <<>> ELSE SubSeq(body, k + 1, Len(body))
        ok == /\ ip # <<>> /\ AllDigits(ip)
              /\ (Len(ip) = 1 \/ Head(ip) # "0")
              /\ (k = 0 \/ (fp # <<>> /\ AllDigits(fp)))
        sign == IF neg THEN -1 ELSE 1
    IN IF ~ok THEN ErrTok
       ELSE IF k = 0 THEN Tok("val", JInt(sign * DigitsToNat(ip)))
       ELSE Tok("val", JFloat(sign * UnsignedMicro(ip, fp)))

\* the position in s, the text after an opening quote, of the quote that
\* closes the string: the first quote with an even number of backslashes
\* right before it; 0 if there is none
ClosingQuote(s) ==
    LET at == {k \in 1..Len(s) :
                 /\ s[k] = "\""
                 /\ \E j \in 0..(k - 1) :
                        /\ (k - 1 - j) % 2 = 0
                        /\ \A i \in (j + 1)..(k - 1) : s[i] = "\\"
                        /\ (j = 0 \/ s[j] # "\\")}
    IN IF at = {} THEN 0 ELSE CHOOSE k \in at : \A j \in at : k <= j

\* the character a JSON escape \c stands for; "" if c starts no escape of the
\* model (\b, \f and \uXXXX are outside its inputs)
Unescaped(c) ==
    IF c \in {"\"", "\\", "/"} THEN c
    ELSE IF c = "n" THEN "\n"
    ELSE IF c = "t" THEN "\t"
    ELSE IF c = "r" THEN "\r"
    ELSE ""

\* the body of a JSON string from position i on is well formed: no raw
\* control character, every backslash starts an escape
RECURSIVE StringBodyOk(_, _)
StringBodyOk(body, i) ==
    IF i > Len(body) THEN TRUE
    ELSE IF i = 1 /\ Range(body) \cap {"\\", "\t", "\n", "\r"} = {} THEN TRUE
    ELSE IF body[i] \in {"\t", "\n", "\r"} THEN FALSE
    ELSE IF body[i] # "\\" THEN StringBodyOk(body, i + 1)
    ELSE i < Len(body) /\ Unescaped(body[i + 1]) # "" /\ StringBodyOk(body, i + 2)

\* the text a well-formed JSON string body stands for, from position i on
RECURSIVE StringBodyText(_, _)
StringBodyText(body, i) ==
    IF i > Len(body) THEN <<>>
    ELSE IF "\\" \notin Range(SubSeq(body, i, Len(body))) THEN SubSeq(body, i, Len(body))
    ELSE IF body[i] # "\\" THEN <<body[i]>> \o StringBodyText(body, i + 1)
    ELSE <<Unescaped(body[i + 1])>> \o StringBodyText(body, i + 2)

\* the token at the head of s, a text that starts with no whitespace, and
\* how many characters it takes
JsonToken(s) ==
    CASE Head(s) \in {"{", "}", ":", ","} -> [tok |-> Tok(Head(s), JNull), len |-> 1]
      [] Head(s) = "\"" ->
            LET k == ClosingQuote(Tail(s)) IN
            IF k = 0 \/ ~StringBodyOk(SubSeq(s, 2, k), 1)
            THEN [tok |-> ErrTok, len |-> Len(s)]
            ELSE [tok |-> Tok("val", JStr(StringBodyText(SubSeq(s, 2, k), 1))),
                  len |-> k + 1]
      [] StartsWith(s, <<"n", "u", "l", "l">>) -> [tok |-> Tok("val", JNull), len |-> 4]
      [] StartsWith(s, <<"t", "r", "u", "e">>) ->
            [tok |-> Tok("val", JBool(TRUE)), len |-> 4]
      [] StartsWith(s, <<"f", "a", "l", "s", "e">>) ->
            [tok |-> Tok("val", JBool(FALSE)), len |-> 5]
      [] Head(s) \in NumberChars ->
            [tok |-> JsonNumber(SubSeq(s, 1, PrefixLen(s, NumberChars))),
             len |-> PrefixLen(s, NumberChars)]
      [] OTHER -> [tok |-> ErrTok, len |-> Len(s)]

\* the tokens of s from position i on, whitespace between them skipped.
\* (j, the position where the next token starts, and t, that token, are each
\* bound to their value, which is thus computed once.)
RECURSIVE JsonLexFrom(_, _)
JsonLexFrom(s, i) ==
    CHOOSE toks \in
        {IF j > Len(s) THEN <<>>
         ELSE CHOOSE more \in
                  {<<t.tok>> \o JsonLexFrom(s, j + t.len) :
                       t \in {JsonToken(SubSeq(s, j, Len(s)))}} : TRUE :
             j \in {Len(s) + 1 - Len(LStrip(SubSeq(s, i, Len(s))))}} : TRUE

JsonLex(s) == JsonLexFrom(s, 1)

\* the members of an object, from token i on: "key" : scalar, separated by
\* commas
RECURSIVE JsonMembersFrom(_, _)
JsonMembersFrom(toks, i) ==
    IF Len(toks) < i + 2 \/ toks[i].k # "val" \/ toks[i].v.t # "str"
       \/ toks[i + 1].k # ":" \/ toks[i + 2].k # "val"
    THEN [ok |-> FALSE, ms |-> <<>>]
    ELSE IF Len(toks) = i + 2
         THEN [ok |-> TRUE, ms |-> <<<<toks[i].v.v, toks[i + 2].v>>>>]
    ELSE IF toks[i + 3].k # "," THEN [ok |-> FALSE, ms |-> <<>>]
    ELSE CHOOSE r \in
             {[ok |-> rest.ok, ms |-> <<<<toks[i].v.v, toks[i + 2].v>>>> \o rest.ms] :
                  rest \in {JsonMembersFrom(toks, i + 4)}} : TRUE

JsonMembers(toks) == JsonMembersFrom(toks, 1)

\* the value a sequence of tokens stands for, or JSONDecodeError
JsonParse(toks) ==
    IF toks = <<>> \/ \E i \in 1..Len(toks) : toks[i].k = "error"
    THEN Raise("JSONDecodeError")
    ELSE IF Len(toks) = 1 /\ toks[1].k = "val" THEN Return(toks[1].v)
    ELSE IF Len(toks) >= 2 /\ toks[1].k = "{" /\ toks[Len(toks)].k = "}"
         THEN IF Len(toks) = 2 THEN Return(JObj(<<>>))
              ELSE CHOOSE res \in
                       {IF r.ok THEN Return(JObj(r.ms)) ELSE Raise("JSONDecodeError") :
                            r \in {JsonMembers(SubSeq(toks, 2, Len(toks) - 1))}} : TRUE
    ELSE Raise("JSONDecodeError")

\* json.loads(s): the parsed value, or JSONDecodeError
JsonLoads(s) ==
    CHOOSE res \in {JsonParse(toks) : toks \in {JsonLex(text) : text \in {s}}} : TRUE

\* dict.get(key): the value of the last member with that key, else None
RECURSIVE DictGet(_, _)
DictGet(pairs, key) ==
    IF pairs = <<>> THEN JNull
    ELSE IF pairs[Len(pairs)][1] = key THEN pairs[Len(pairs)][2]
    ELSE DictGet(SubSeq(pairs, 1, Len(pairs) - 1), key)

\* str(x) of a parsed scalar
PyStr(j) ==
    CASE j.t = "str" -> j.v
      [] j.t = "int" ->
            (IF j.v[1] < 0 THEN <<"-">> ELSE <<>>)
            \o NatToDigits(IF j.v[1] < 0 THEN -j.v[1] ELSE j.v[1])
      [] j.t = "float" -> FormatFloat(j.v[1])
      [] j.t = "bool" -> IF j.v[1] THEN <<"T", "r", "u", "e">>
                         ELSE <<"F", "a", "l", "s", "e">>
      [] OTHER -> <<"N", "o", "n", "e">>

\* float(x) of a parsed scalar, in millionths
PyFloat(j) ==
    CASE j.t = "str" ->
            IF ParseFloat(j.v) = <<>> THEN Raise("ValueError")
            ELSE Return(ParseFloat(j.v)[1])
      [] j.t = "int" -> Return(j.v[1] * Million)
      [] j.t = "float" -> Return(j.v[1])
      [] j.t = "bool" -> Return(IF j.v[1] THEN Million ELSE 0)
      [] OTHER -> Raise("TypeError")

\* bool(x) of a parsed scalar
Truthy(j) ==
    CASE j.t = "str" -> j.v # <<>>
      [] j.t \in {"int", "float"} -> j.v[1] # 0
      [] j.t = "bool" -> j.v[1]
      [] OTHER -> FALSE

\* json.dumps of one character of a str (ensure_ascii changes nothing for
\* the ASCII characters of the model)
EscapedChar(c) ==
    IF c = "\"" THEN <<"\\", "\"">>
    ELSE IF c = "\\" THEN <<"\\", "\\">>
    ELSE IF c = "\n" THEN <<"\\", "n">>
    ELSE IF c = "\t" THEN <<"\\", "t">>
    ELSE IF c = "\r" THEN <<"\\", "r">>
    ELSE <<c>>

RECURSIVE EscapedText(_, _)
EscapedText(s, i) ==
    IF i > Len(s) THEN <<>>
    ELSE IF Range(SubSeq(s, i, Len(s))) \cap {"\"", "\\", "\n", "\t", "\r"} = {}
         THEN SubSeq(s, i, Len(s))
    ELSE EscapedChar(s[i]) \o EscapedText(s, i + 1)

\* json.dumps of a scalar
JsonDumpsScalar(j) ==
    CASE j.t = "str" -> <<"\"">> \o EscapedText(j.v, 1) \o <<"\"">>
      [] j.t = "int" ->
            (IF j.v[1] < 0 THEN <<"-">> ELSE <<>>)
            \o NatToDigits(IF j.v[1] < 0 THEN -j.v[1] ELSE j.v[1])
      [] j.t = "float" -> FormatFloat(j.v[1])
      [] j.t = "bool" -> IF j.v[1] THEN <<"t", "r", "u", "e">>
                         ELSE <<"f", "a", "l", "s", "e">>
      [] OTHER -> <<"n", "u", "l", "l">>

\* the members of json.dumps(dict), from member i on, with the default
\* separators ", " and ": "
RECURSIVE JsonDumpsMembers(_, _)
JsonDumpsMembers(pairs, i) ==
    IF i > Len(pairs) THEN <<>>
    ELSE (IF i > 1 THEN <<",", " ">> ELSE <<>>)
         \o JsonDumpsScalar(JStr(pairs[i][1])) \o <<":", " ">>
         \o JsonDumpsScalar(pairs[i][2])
         \o JsonDumpsMembers(pairs, i + 1)

\* json.dumps(body) for a dict of scalars
JsonDumps(pairs) == <<"{">> \o JsonDumpsMembers(pairs, 1) \o <<"}">>

----------------------------------------------------------------------------
(* datetime.fromisoformat, for YYYY-MM-DD, YYYY-MM-DD?HH:MM:SS and        *)
(* YYYY-MM-DD?HH:MM:SS.ffffff (any one separator character); the other    *)
(* accepted spellings are outside the inputs of the model.  A datetime is  *)
(* the tuple <<year, month, day, hour, minute, second, microsecond>>.      *)

DaysInMonth(y, m) ==
    IF m \in {4, 6, 9, 11} THEN 30
    ELSE IF m # 2 THEN 31
    ELSE IF (y % 4 = 0 /\ y % 100 # 0) \/ y % 400 = 0 THEN 29 ELSE 28

DateOk(s) ==
    /\ AllDigits(SubSeq(s, 1, 4)) /\ s[5] = "-" /\ AllDigits(SubSeq(s, 6, 7))
    /\ s[8] = "-" /\ AllDigits(SubSeq(s, 9, 10))
    /\ LET y == DigitsToNat(SubSeq(s, 1, 4))
           m == DigitsToNat(SubSeq(s, 6, 7))
           d == DigitsToNat(SubSeq(s, 9, 10))
       IN y >= 1 /\ m \in 1..12 /\ d >= 1 /\ d <= DaysInMonth(y, m)

TimeOk(s) ==
    /\ AllDigits(SubSeq(s, 12, 13)) /\ s[14] = ":" /\ AllDigits(SubSeq(s, 15, 16))
    /\ s[17] = ":" /\ AllDigits(SubSeq(s, 18, 19))
    /\ DigitsToNat(SubSeq(s, 12, 13)) < 24
    /\ DigitsToNat(SubSeq(s, 15, 16)) < 60
    /\ DigitsToNat(SubSeq(s, 18, 19)) < 60

FromIsoFormat(s) ==
    LET n == Len(s)
        ok == /\ n \in {10, 19, 26}
              /\ DateOk(s)
              /\ (n >= 19 => TimeOk(s))
              /\ (n = 26 => s[20] = "." /\ AllDigits(SubSeq(s, 21, 26)))
        f(a, b) == IF n >= b THEN DigitsToNat(SubSeq(s, a, b)) ELSE 0
    IN IF ~ok THEN Raise("ValueError")
       ELSE Return(<<f(1, 4), f(6, 7), f(9, 10), f(12, 13), f(15, 16),
                     f(18, 19), f(21, 26)>>)

\* (a variant that always stops at the seconds)
IsoFormatSeconds(d) ==
    PadDigits(d[1], 4) \o <<"-">> \o PadDigits(d[2], 2) \o <<"-">> \o PadDigits(d[3], 2)
    \o <<"T">> \o PadDigits(d[4], 2) \o <<":">> \o PadDigits(d[5], 2)
    \o <<":">> \o PadDigits(d[6], 2)

\* datetime.isoformat() of a naive datetime: YYYY-MM-DDTHH:MM:SS, and
\* .ffffff when the microsecond is not 0
IsoFormat(d) ==
    PadDigits(d[1], 4) \o <<"-">> \o PadDigits(d[2], 2) \o <<"-">> \o PadDigits(d[3], 2)
    \o <<"T">> \o PadDigits(d[4], 2) \o <<":">> \o PadDigits(d[5], 2)
    \o <<":">> \o PadDigits(d[6], 2)
    \o (IF d[7] = 0 THEN <<>> ELSE <<".">> \o PadDigits(d[7], 6))

----------------------------------------------------------------------------
(* protocols.py *)

Str_unknown == <<"u", "n", "k", "n", "o", "w", "n">>
Str_teltonika == <<"t", "e", "l", "t", "o", "n", "i", "k", "a">>
Str_queclink == <<"q", "u", "e", "c", "l", "i", "n", "k">>
Str_concox == <<"c", "o", "n", "c", "o", "x">>

\* DecodedPosition: the dataclass, with its defaults for the optional fields
DecodedPosition(device_id, latitude, longitude, speed, course, event_type, timestamp) ==
    [device_id |-> device_id, latitude |-> latitude, longitude |-> longitude,
     speed |-> speed, course |-> course, event_type |-> event_type,
     timestamp |-> timestamp]

\* the first exception among the results, in evaluation order, "" if none
RECURSIVE FirstExc(_)
FirstExc(rs) ==
    IF rs = <<>> THEN ""
    ELSE IF Raised(Head(rs)) THEN Head(rs).exc ELSE FirstExc(Tail(rs))

\* float(x) if x is not None else None
OptFloat(j) ==
    IF j.t = "null" THEN Return(<<>>)
    ELSE IF Raised(PyFloat(j)) THEN PyFloat(j) ELSE Return(<<Value(PyFloat(j))>>)

Key_id == <<"i", "d">>
Key_lat == <<"l", "a", "t">>
Key_lon == <<"l", "o", "n">>
Key_speed == <<"s", "p", "e", "e", "d">>
Key_course == <<"c", "o", "u", "r", "s", "e">>
Key_event == <<"e", "v", "e", "n", "t">>
Key_ts == <<"t", "s">>

\* the dict that TeltonikaAdapter.decode_message falls back to
TeltonikaFallback ==
    JObj(<< <<Key_id, JStr(Str_unknown)>>, <<Key_lat, JInt(0)>>, <<Key_lon, JInt(0)>> >>)

\* TeltonikaAdapter.decode_message, the try block: json.loads(payload.decode()),
\* any exception replaced by the fallback dict
TeltonikaLoad(payload) ==
    IF Raised(BytesDecode(payload)) THEN TeltonikaFallback
    ELSE IF Raised(JsonLoads(Value(BytesDecode(payload)))) THEN TeltonikaFallback
    ELSE Value(JsonLoads(Value(BytesDecode(payload))))

\* datetime.fromisoformat(decoded["ts"]) if decoded.get("ts") else None
TeltonikaStamp(ts) ==
    IF ~Truthy(ts) THEN Return(<<>>)
    ELSE IF ts.t # "str" THEN Raise("TypeError")
    ELSE IF Raised(FromIsoFormat(ts.v)) THEN FromIsoFormat(ts.v)
    ELSE Return(<<Value(FromIsoFormat(ts.v))>>)

\* decoded.get("event"), a string or None in the inputs of the model
TeltonikaEvent(event) ==
    IF event.t = "null" THEN <<>>
    ELSE IF event.t = "str" THEN <<event.v>> ELSE <<PyStr(event)>>

\* the constructor call of TeltonikaAdapter.decode_message: its arguments are
\* evaluated in order and the first exception is the one raised
TeltonikaPosition(id, lat, lon, speed, course, event, stamp) ==
    IF FirstExc(<<lat, lon, speed, course, stamp>>) # ""
    THEN Raise(FirstExc(<<lat, lon, speed, course, stamp>>))
    ELSE Return(DecodedPosition(id, Value(lat), Value(lon), Value(speed),
                                Value(course), event, Value(stamp)))

\* TeltonikaAdapter.decode_message, after the try block
TeltonikaBuild(decoded) ==
    IF decoded.t # "obj" THEN Raise("AttributeError")
    ELSE TeltonikaPosition(PyStr(DictGet(decoded.v, Key_id)),
                           PyFloat(DictGet(decoded.v, Key_lat)),
                           PyFloat(DictGet(decoded.v, Key_lon)),
                           OptFloat(DictGet(decoded.v, Key_speed)),
                           OptFloat(DictGet(decoded.v, Key_course)),
                           TeltonikaEvent(DictGet(decoded.v, Key_event)),
                           TeltonikaStamp(DictGet(decoded.v, Key_ts)))

\* TeltonikaAdapter.decode_message
TeltonikaDecode(payload) ==
    CHOOSE res \in {TeltonikaBuild(decoded) : decoded \in {TeltonikaLoad(payload)}} : TRUE

\* an optional float, or an optional str, as a JSON value
JOptFloat(x) == IF x = <<>> THEN JNull ELSE JFloat(x[1])
JOptStr(x) == IF x = <<>> THEN JNull ELSE JStr(x[1])

\* TeltonikaAdapter.simulate_payload; now is datetime.utcnow() at the call
TeltonikaSimulate(position, now) ==
    Encode(JsonDumps(<<
        <<Key_id, JStr(position.device_id)>>,
        <<Key_lat, JFloat(position.latitude)>>,
        <<Key_lon, JFloat(position.longitude)>>,
        <<Key_speed, JOptFloat(position.speed)>>,
        <<Key_course, JOptFloat(position.course)>>,
        <<Key_event, JOptStr(position.event_type)>>,
        <<Key_ts, JStr(IsoFormat(IF position.timestamp = <<>> THEN now
                                 ELSE position.timestamp[1]))>> >>))

\* float(parts[i]) if len(parts) > i else default (i is the zero-based index)
FieldFloat(parts, i, default) ==
    IF Len(parts) > i
    THEN (IF ParseFloat(parts[i + 1]) = <<>> THEN Raise("ValueError")
          ELSE Return(ParseFloat(parts[i + 1])))
    ELSE Return(default)

\* the constructor call of QueclinkAdapter.decode_message
QueclinkPosition(device_id, latitude, longitude, speed, course) ==
    IF FirstExc(<<latitude, longitude, speed, course>>) # ""
    THEN Raise(FirstExc(<<latitude, longitude, speed, course>>))
    ELSE Return(DecodedPosition(device_id, Value(latitude)[1], Value(longitude)[1],
                                Value(speed), Value(course), <<Str_queclink>>, <<>>))

\* QueclinkAdapter.decode_message, from parts = text.split(",")
QueclinkFields(parts) ==
    QueclinkPosition(IF Len(parts) > 1 THEN parts[2] ELSE Str_unknown,
                     FieldFloat(parts, 7, <<0>>), FieldFloat(parts, 8, <<0>>),
                     FieldFloat(parts, 11, <<>>), FieldFloat(parts, 12, <<>>))

\* QueclinkAdapter.decode_message
QueclinkDecode(payload) == QueclinkFields(Split(BytesDecodeIgnore(payload), ","))

\* the text of an optional float in an f-string: repr of the float, or None
FmtOpt(x) == IF x = <<>> THEN <<"N", "o", "n", "e">> ELSE FormatFloat(x[1])

\* QueclinkAdapter.simulate_payload
QueclinkSimulate(position) ==
    Encode(<<"+", "R", "E", "S", "P", ":", "G", "T", "F", "R", "I", ",">>
           \o position.device_id
           \o <<",", ",", ",", ",", ",", ",">> \o FormatFloat(position.latitude)
           \o <<",">> \o FormatFloat(position.longitude)
           \o <<",", ",", ",", ",", ",">> \o FmtOpt(position.speed)
           \o <<",">> \o FmtOpt(position.course))

\* value of a byte in the base64 alphabet, 64 for a byte outside it
B64Val(b) ==
    IF b \in 65..90 THEN b - 65
    ELSE IF b \in 97..122 THEN b - 71
    ELSE IF b \in 48..57 THEN b + 4
    ELSE IF b = 43 THEN 62
    ELSE IF b = 47 THEN 63
    ELSE 64

\* binascii.a2b_base64, not strict: bytes outside the alphabet are skipped, a
\* pad that completes a quad ends the decoding, a quad left open is an error
RECURSIVE A2bBase64(_, _, _, _, _)
A2bBase64(data, quad_pos, leftchar, pads, out) ==
    IF data = <<>>
    THEN (IF quad_pos # 0 THEN Raise("binascii.Error") ELSE Return(out))
    ELSE LET ch == Head(data)
             v == B64Val(ch)
         IN IF ch = 61
            THEN (IF quad_pos >= 2 /\ quad_pos + pads + 1 >= 4 THEN Return(out)
                  ELSE A2bBase64(Tail(data), quad_pos, leftchar,
                                 IF quad_pos >= 2 THEN pads + 1 ELSE pads, out))
            ELSE IF v >= 64 THEN A2bBase64(Tail(data), quad_pos, leftchar, pads, out)
            ELSE IF quad_pos = 0 THEN A2bBase64(Tail(data), 1, v, 0, out)
            ELSE IF quad_pos = 1
                 THEN A2bBase64(Tail(data), 2, v % 16, 0,
                                Append(out, leftchar * 4 + (v \div 16)))
            ELSE IF quad_pos = 2
                 THEN A2bBase64(Tail(data), 3, v % 4, 0,
                                Append(out, leftchar * 16 + (v \div 4)))
            ELSE A2bBase64(Tail(data), 0, 0, 0, Append(out, leftchar * 64 + v))

\* base64.b64decode(payload)
B64Decode(payload) == A2bBase64(payload, 0, 0, 0, <<>>)

HexDigits == <<"0", "1", "2", "3", "4", "5", "6", "7", "8", "9",
               "a", "b", "c", "d", "e", "f">>

\* bytes.hex()
RECURSIVE Hex(_)
Hex(bs) ==
    IF bs = <<>> THEN <<>>
    ELSE <<HexDigits[(Head(bs) \div 16) + 1], HexDigits[(Head(bs) % 16) + 1]>>
         \o Hex(Tail(bs))

\* int.from_bytes(bs, "big", signed=True) for four bytes
IntFromBytes(bs) ==
    LET top == IF bs[1] >= 128 THEN bs[1] - 256 ELSE bs[1]
    IN ((top * 256 + bs[2]) * 256 + bs[3]) * 256 + bs[4]

\* the shortest frame the fixed-layout variant parses
MinFrameLen == 12

\* (a variant without the except branch: invalid base64 raises)
ConcoxDecodeStrict(payload) ==
    LET r == B64Decode(payload)
    IN IF Raised(r) THEN r
       ELSE IF Len(Value(r)) < MinFrameLen
       THEN Return(DecodedPosition(Str_unknown, 0, 0, <<>>, <<>>, <<>>, <<>>))
       ELSE Return(DecodedPosition(Hex(SubSeq(Value(r), 1, 4)),
                                   IntFromBytes(SubSeq(Value(r), 5, 8)),
                                   IntFromBytes(SubSeq(Value(r), 9, 12)),
                                   <<>>, <<>>, <<Str_concox>>, <<>>))

\* ConcoxAdapter.decode_message
ConcoxDecode(payload) ==
    LET r == B64Decode(payload)
        decoded == IF Raised(r) THEN payload ELSE Value(r)
    IN IF Len(decoded) < MinFrameLen
       THEN Return(DecodedPosition(Str_unknown, 0, 0, <<>>, <<>>, <<>>, <<>>))
       ELSE Return(DecodedPosition(Hex(SubSeq(decoded, 1, 4)),
                                   IntFromBytes(SubSeq(decoded, 5, 8)),
                                   IntFromBytes(SubSeq(decoded, 9, 12)),
                                   <<>>, <<>>, <<Str_concox>>, <<>>))

\* n copies of the character c
Repeat(c, n) == [i \in 1..n |-> c] \o <<>>

\* str.zfill(width): zeros on the left, after a leading sign
ZFill(s, width) ==
    IF Len(s) >= width THEN s
    ELSE IF s # <<>> /\ s[1] \in {"+", "-"}
    THEN <<s[1]>> \o Repeat("0", width - Len(s)) \o Tail(s)
    ELSE Repeat("0", width - Len(s)) \o s

\* value of a hexadecimal digit of either case, 16 for any other character
HexVal(c) ==
    IF c \in Whitespace THEN 16
    ELSE IF Ord(c) \in 48..57 THEN Ord(c) - 48
    ELSE IF Ord(c) \in 97..102 THEN Ord(c) - 87
    ELSE IF Ord(c) \in 65..70 THEN Ord(c) - 55
    ELSE 16

\* bytes.fromhex(s) from position i on: whitespace before a pair is skipped,
\* anything but two hexadecimal digits is a ValueError
RECURSIVE FromHexAt(_, _, _)
FromHexAt(s, i, out) ==
    IF i > Len(s) THEN Return(out)
    ELSE IF s[i] \in Whitespace THEN FromHexAt(s, i + 1, out)
    ELSE IF i + 1 > Len(s) \/ HexVal(s[i]) = 16 \/ HexVal(s[i + 1]) = 16
    THEN Raise("ValueError")
    ELSE FromHexAt(s, i + 2, Append(out, HexVal(s[i]) * 16 + HexVal(s[i + 1])))

\* bytes.fromhex(s)
BytesFromHex(s) == FromHexAt(s, 1, <<>>)

\* floor(log2(n)) for n >= 1
RECURSIVE Log2(_)
Log2(n) == IF n < 2 THEN 0 ELSE 1 + Log2(n \div 2)

RECURSIVE Pow2(_)
Pow2(k) == IF k = 0 THEN 1 ELSE 2 * Pow2(k - 1)

\* (n * 2^times) % m for n < m <= 2 * 10^6, ten doublings at a time while the
\* product stays inside 32 bits
RECURSIVE DoubleMod(_, _, _)
DoubleMod(n, times, m) ==
    IF times = 0 THEN n
    ELSE IF times >= 10 THEN DoubleMod((1024 * n) % m, times - 10, m)
    ELSE DoubleMod((2 * n) % m, times - 1, m)

\* the s with 10^6 <= a * 2^s < 2 * 10^6, for a >= 1: the double nearest to
\* a / 10^6 has the significand round(a * 2^(52 + s) / 10^6)
RECURSIVE ScaleShift(_)
ScaleShift(a) ==
    IF a < Million THEN 1 + ScaleShift(2 * a)
    ELSE IF a >= 2 * Million THEN ScaleShift(a \div 2) - 1
    ELSE 0

\* a >= 1 millionths: whether x * 1000000 comes out below a, x being the double
\* nearest to a / 10^6.  With E = 52 + ScaleShift(a) and a * 2^E = Q * 10^6 + R,
\* x is Q / 2^E when R is under a half (or is the half and Q is even), the
\* product is then exactly a - R / 2^E, and it is rounded to a double below a
\* when R / 2^E is more than half the spacing of the doubles under a.
ProductBelow(a) ==
    LET E == 52 + ScaleShift(a)
        n == DoubleMod(a % (2 * Million), E, 2 * Million)
        R == n % Million
        e == Log2(a)
        half_gap == Pow2(E + e - 53 - (IF a = Pow2(e) THEN 1 ELSE 0))
    IN /\ R < Million \div 2 \/ (R = Million \div 2 /\ n < Million)
       /\ R > half_gap

\* int(x * 1000000) for the float x of k millionths: the product truncated
\* towards zero
ScaledInt(k) ==
    IF k = 0 THEN 0
    ELSE IF k > 0 THEN (IF ProductBelow(k) THEN k - 1 ELSE k)
    ELSE (IF ProductBelow(0 - k) THEN k + 1 ELSE k)

\* n.to_bytes(4, "big", signed=True), for n in the signed 32-bit range
IntToBytes(n) ==
    <<(n \div 16777216) % 256, (n \div 65536) % 256, (n \div 256) % 256, n % 256>>

\* the base64 alphabet: the byte that stands for the value v
B64Chr(v) ==
    IF v < 26 THEN v + 65
    ELSE IF v < 52 THEN v + 71
    ELSE IF v < 62 THEN v - 4
    ELSE IF v = 62 THEN 43
    ELSE 47

\* base64.b64encode(bs) from byte i on
RECURSIVE B64EncodeAt(_, _)
B64EncodeAt(bs, i) ==
    IF i > Len(bs) THEN <<>>
    ELSE IF i = Len(bs)
    THEN <<B64Chr(bs[i] \div 4), B64Chr((bs[i] % 4) * 16), 61, 61>>
    ELSE IF i + 1 = Len(bs)
    THEN <<B64Chr(bs[i] \div 4), B64Chr((bs[i] % 4) * 16 + bs[i + 1] \div 16),
           B64Chr((bs[i + 1] % 16) * 4), 61>>
    ELSE <<B64Chr(bs[i] \div 4), B64Chr((bs[i] % 4) * 16 + bs[i + 1] \div 16),
           B64Chr((bs[i + 1] % 16) * 4 + bs[i + 2] \div 64), B64Chr(bs[i + 2] % 64)>>
         \o B64EncodeAt(bs, i + 3)

\* base64.b64encode(bs)
B64Encode(bs) == B64EncodeAt(bs, 1)

\* s[:n]
Take(s, n) == SubSeq(s, 1, IF Len(s) < n THEN Len(s) ELSE n)

\* the frame of ConcoxAdapter.simulate_payload before base64: the first four
\* bytes of the device id read as hexadecimal, then the two scaled coordinates
ConcoxFrame(position) ==
    LET device == BytesFromHex(ZFill(position.device_id, 8))
    IN IF Raised(device) THEN device
       ELSE Return(Take(Value(device), 4)
                   \o IntToBytes(ScaledInt(position.latitude))
                   \o IntToBytes(ScaledInt(position.longitude)))

\* ConcoxAdapter.simulate_payload
ConcoxSimulate(position) ==
    LET frame == ConcoxFrame(position)
    IN IF Raised(frame) THEN frame ELSE Return(B64Encode(Value(frame)))

\* the keys of the adapters table of get_adapter
AdapterNames == {Str_teltonika, Str_queclink, Str_concox}

\* (a variant that looks the protocol up as written, without lower())
get_adapter_exact(protocol) ==
    IF protocol \notin AdapterNames THEN Raise("ValueError") ELSE Return(protocol)

\* get_adapter: the adapter's name, or ValueError
get_adapter(protocol) ==
    LET name == Lower(protocol)
    IN IF name \notin AdapterNames THEN Raise("ValueError") ELSE Return(name)

\* adapter.decode_message(payload) for the adapter of that name
decode_message(name, payload) ==
    IF name = Str_teltonika THEN TeltonikaDecode(payload)
    ELSE IF name = Str_queclink THEN QueclinkDecode(payload)
    ELSE ConcoxDecode(payload)

\* decode_with
decode_with(protocol, payload) ==
    LET adapter == get_adapter(protocol)
    IN IF Raised(adapter) THEN adapter ELSE decode_message(Value(adapter), payload)

----------------------------------------------------------------------------
(* gps_server.py *)

\* (a variant where a field that is no number counts as 0)
RestFloatZero(rest, i) ==
    IF Len(rest) < i \/ rest[i] = <<>> THEN <<>>
    ELSE IF ParseFloat(rest[i]) = <<>> THEN <<0>> ELSE ParseFloat(rest[i])

\* float(rest[i]) if rest[i] else None, with ValueError turned into None
RestFloat(rest, i) ==
    IF Len(rest) < i \/ rest[i] = <<>> THEN <<>> ELSE ParseFloat(rest[i])

\* the generic comma-delimited decoder of GPSServer._decode_message
DecodeCsv(message) ==
    LET parts == Split(message, ",")
        rest == SubSeq(parts, 4, Len(parts))
    IN IF Len(parts) < 3 THEN Raise("ValueError")
       ELSE IF ParseFloat(parts[2]) = <<>> \/ ParseFloat(parts[3]) = <<>>
            THEN Raise("ValueError")
       ELSE Return(DecodedPosition(parts[1], ParseFloat(parts[2])[1],
                                   ParseFloat(parts[3])[1], RestFloat(rest, 1),
                                   RestFloat(rest, 2), <<>>, <<>>))

\* the routing of GPSServer._decode_message: which decoder a message goes to
\* and with which arguments
Route(message) ==
    IF "|" \in Range(message)
    THEN LET cut == SplitOnce(message, "|")
         IN [to |-> "decode_with", protocol |-> Strip(cut[1]), raw |-> Encode(cut[2])]
    ELSE [to |-> "csv", protocol |-> <<>>, raw |-> <<>>]

\* GPSServer._decode_message
DecodeMessage(message) ==
    LET r == Route(message)
    IN IF r.to = "decode_with" THEN decode_with(r.protocol, r.raw)
       ELSE DecodeCsv(message)

----------------------------------------------------------------------------
(* The lines a device may send *)

\* a well-formed line for the generic decoder (the example of the module docstring)
Line_csv ==
    <<"d", "e", "v", "-", "1", ",", "4", "0", ".", "0", ",", "-", "3", ".",
      "0", ",", "5", "0", ".", "0">>

\* a well-formed tag-value line
Line_teltonika ==
    <<"T", "e", "l", "t", "o", "n", "i", "k", "a", "|", "{", "\"", "i", "d",
      "\"", ":", "\"", "d", "2", "\"", ",", "\"", "l", "a", "t", "\"", ":",
      "1", ".", "5", ",", " ", "\"", "l", "o", "n", "\"", ":", "-", "2", "}">>

\* an unrecognized protocol tag
Line_unknown_tag ==
    <<"g", "t", "0", "6", "|", "x">>

\* a malformed latitude
Line_bad_field ==
    <<"d", "1", ",", "a", "b", "c", ",", "2">>

\* a tag-value payload that is not JSON
Line_bad_json ==
    <<"t", "e", "l", "t", "o", "n", "i", "k", "a", "|", "{", "x">>

\* a truncated binary record
Line_truncated ==
    <<"c", "o", "n", "c", "o", "x", "|", "A", "A", "A", "A">>

\* a line the peer sends whole: its bytes and the newline
Sent(line) == Encode(line) \o <<10>>

\* a line with a byte that is not UTF-8
Bytes_not_utf8 == <<100, 255, 10>>

WellFormedChunks == {Sent(Line_csv), Sent(Line_teltonika)}

MalformedChunks ==
    {Sent(Line_unknown_tag), Sent(Line_bad_field), Sent(Line_bad_json),
     Sent(Line_truncated), Bytes_not_utf8}

\* what one write of a device can put on the wire
Chunks == WellFormedChunks \cup MalformedChunks

\* a last line the peer sends without its newline: well-formed, with an
\* unrecognized tag, with a byte that is not UTF-8
PartialChunks == {Encode(Line_csv), Encode(Line_unknown_tag), <<100, 255>>}

----------------------------------------------------------------------------
(* The connection server and the broadcaster *)

\* the device connections and the websockets of the model
Conns == {"c1", "c2"}
Sockets == {"w1", "w2"}

\* the first device sends lines of every kind; the second, there to run
\* beside it, sends the plain line and the line that is not UTF-8
FewChunks == {Sent(Line_csv), Bytes_not_utf8}
ChunksOf(c) == IF c = "c1" THEN Chunks ELSE FewChunks

\* how many writes the devices make in all
MaxSends == 3

\* how many calls of broadcast there are in all; the n-th call publishes the
\* payload n
MaxPublishes == 2

\* how many calls of register there are in all
MaxRegisters == 3
Publishes == 1..MaxPublishes

\* the consumers of GET /stream/sse
Streams == {"s1", "s2"}

\* how many calls of enqueue, of start_worker and of dispatch (outside the
\* worker) there are in all
MaxEnqueues == 2
MaxStarts == 3
MaxDispatches == 3

\* the tasks that call dequeue themselves, and the worker tasks: the k-th
\* task that start_worker creates is k
Caller(i) == <<"caller", i>>
Worker(k) == <<"worker", k>>
Callers == {Caller(1), Caller(2)}
Workers == {Worker(k) : k \in 1..MaxStarts}
Procs == Callers \cup Workers

\* the providers of the dispatcher
Providers == {"email_provider", "sms_provider", "push_provider"}

\* the timeouts dequeue is called with
Timeouts == {0, 1}

\* a caller that is in no call of dequeue, a worker task that was not
\* created.  pc is where the task is: idle, waiting (in _getters), woken,
\* blocked (in a BLPOP that does not return) for a caller; unborn, ready (at
\* the get of its dequeue), waiting, woken, got (dequeue returned message),
\* sleeping, ended for a worker.  timeout is the timeout of the dequeue in
\* progress; last is how the last dequeue of the task ended (for a worker
\* that has ended: the exception that ended it) and left is how many
\* messages were then in the queue beyond those that woken tasks were about
\* to take.
NoProc(p) ==
    [pc |-> IF p \in Callers THEN "idle" ELSE "unborn", timeout |-> 1,
     message |-> <<>>, last |-> <<>>, left |-> 0]

\* no unregister of websocket_positions yet.  ws is the websocket of the
\* call, found says that it was in the set, error is what the call raised.
NoUnregister == [ws |-> "", found |-> FALSE, error |-> "none"]

\* a call of broadcast that has not started.  pc is where the coroutine is
\* (idle, sending: suspended in await connection.send_json, returned, raised);
\* used and behind are the set iterator of the for statement (the size of the
\* set when the iterator was made, the entries the iterator has gone past);
\* stale is the local list; cur is the connection of the pending send.  The
\* other fields are history: start is the set when the call started, changed
\* says that another task changed the set while this call was suspended,
\* kept holds the connections of start that were not unregistered since,
\* failed the connections whose send failed in this call and that were not
\* registered since, barred the connections that had failed in calls ended
\* before this one started and were not registered since, prior the calls
\* that had returned when this one started, error what the call raised.
NoBroadcast ==
    [pc |-> "idle", used |-> 0, behind |-> {}, stale |-> <<>>, cur |-> "",
     start |-> {}, changed |-> FALSE, kept |-> {}, failed |-> {}, barred |-> {},
     prior |-> {}, error |-> "none"]

\* the client addresses of the requests
Clients == {"10.0.0.1", "10.0.0.2"}

\* the clock, in seconds, when the first request arrives
StartTime == 1000

\* datetime.utcnow() at the time of a save (one instant stands for the clock)
UtcNow == <<2026, 1, 1, 0, 0, 0, 0>>

serverVars == <<stream, peer_eof, task, transport_closed, sent, log, positions>>
streamVars == <<_getters, sse, yielded>>
broadcasterVars ==
    <<_connections, ws_messages, _event_queue, broadcasts, attempts, accepts,
      unregistered, streamVars>>
callVars == <<call, result>>
queueVars == <<_client, redis_pending, _memory_queue, nq_getters, procs,
               enqueued, results, _worker_task, starts>>
dispatchVars == <<invoked, dispatched>>
notifyVars == <<queueVars, dispatchVars>>
ingestVars == <<ingests>>
limiterVars == <<_counters, utc_now, allows>>
loginVars == <<login_attempts, time_now, logins>>
webVars == <<ingestVars, limiterVars, loginVars>>

InitServer ==
    /\ stream = [c \in Conns |-> <<>>]
    /\ peer_eof = [c \in Conns |-> FALSE]
    /\ task = [c \in Conns |-> "none"]
    /\ transport_closed = [c \in Conns |-> FALSE]
    /\ sent = [c \in Conns |-> <<>>]
    /\ log = [c \in Conns |-> <<>>]
    /\ positions = <<>>

\* LiveBroadcaster.__init__
InitBroadcaster ==
    /\ _connections = {}
    /\ ws_messages = [w \in Sockets |-> <<>>]
    /\ _event_queue = <<>>
    /\ broadcasts = [n \in Publishes |-> NoBroadcast]
    /\ attempts = [w \in Sockets |-> <<>>]
    /\ accepts = 0
    /\ unregistered = NoUnregister
    /\ _getters = <<>>
    /\ sse = [s \in Streams |-> "none"]
    /\ yielded = [s \in Streams |-> <<>>]

InitCall ==
    /\ call = [fn |-> "none", args |-> <<>>]
    /\ result = <<>>

\* before NotificationService.from_env: no queue yet, and what
\* NotificationDispatcher.__init__ and NotificationService.__init__ set
InitNotify ==
    /\ _client = ""
    /\ redis_pending = <<>>
    /\ _memory_queue = <<>>
    /\ nq_getters = <<>>
    /\ procs = [p \in Procs |-> NoProc(p)]
    /\ enqueued = <<>>
    /\ results = <<>>
    /\ _worker_task = 0
    /\ starts = 0
    /\ invoked = [p \in Providers |-> <<>>]
    /\ dispatched = <<>>

\* no request was handled yet: no call of ingest_http, the rate limiter as
\* RequestRateLimiter.__init__ leaves it, login_attempts = {}
InitWeb ==
    /\ ingests = <<>>
    /\ _counters = [ip \in Clients |-> <<>>]
    /\ utc_now = StartTime
    /\ allows = <<>>
    /\ login_attempts = [ip \in Clients |-> <<>>]
    /\ time_now = StartTime
    /\ logins = <<>>

Init == InitServer /\ InitBroadcaster /\ InitCall /\ InitNotify /\ InitWeb

TotalSent == Len(sent["c1"]) + Len(sent["c2"])

\* (a variant that serves one device at a time: no accept while a handler
\* waits for a line)
CanAcceptSerial(c) == task[c] = "none" /\ \A d \in Conns : task[d] # "reading"

\* the accept path of asyncio.start_server: it depends on no other connection
CanAccept(c) == task[c] = "none"

\* GPSServer.start: a device connects, start_server spawns handle_client for
\* it, which runs to its first await of readline
Accept(c) ==
    /\ CanAccept(c)
    /\ task' = [task EXCEPT ![c] = "reading"]
    /\ UNCHANGED <<stream, peer_eof, transport_closed, sent, log, positions>>
    /\ UNCHANGED <<broadcasterVars, callVars, notifyVars, webVars>>

\* the device writes bytes on its connection
PeerSend(c, chunk) ==
    /\ task[c] # "none" /\ ~peer_eof[c] /\ TotalSent < MaxSends
    /\ stream' = [stream EXCEPT ![c] = @ \o chunk]
    /\ sent' = [sent EXCEPT ![c] = Append(@, chunk)]
    /\ UNCHANGED <<peer_eof, task, transport_closed, log, positions>>
    /\ UNCHANGED <<broadcasterVars, callVars, notifyVars, webVars>>

\* the device closes its side of the connection
PeerClose(c) ==
    /\ task[c] # "none" /\ ~peer_eof[c]
    /\ peer_eof' = [peer_eof EXCEPT ![c] = TRUE]
    /\ UNCHANGED <<stream, task, transport_closed, sent, log, positions>>
    /\ UNCHANGED <<broadcasterVars, callVars, notifyVars, webVars>>

\* StreamReader.readline can return: a whole line is buffered, or the stream ended
LineReady(c) == 10 \in Range(stream[c]) \/ peer_eof[c]

\* StreamReader.readline: the bytes up to the first newline, it included; at
\* the end of the stream whatever is left, which may be nothing
ReadLine(buf) ==
    LET k == Find(buf, 10) IN IF k = 0 THEN buf ELSE SubSeq(buf, 1, k)

\* (a variant that puts the new row first)
SavePositionFirst(rows, p, conn, lineno) ==
    <<[device_id |-> p.device_id,
       timestamp |-> IF p.timestamp = <<>> THEN UtcNow ELSE p.timestamp[1],
       latitude |-> p.latitude, longitude |-> p.longitude,
       speed |-> p.speed, course |-> p.course, ignition |-> <<>>,
       event_type |-> p.event_type, conn |-> conn, lineno |-> lineno]>> \o rows

\* save_position: the row it commits.  (conn and lineno are not columns: they
\* record which line of which connection the row comes from.)
SavePosition(rows, p, conn, lineno) ==
    Append(rows, [device_id |-> p.device_id,
                  timestamp |-> IF p.timestamp = <<>> THEN UtcNow ELSE p.timestamp[1],
                  latitude |-> p.latitude, longitude |-> p.longitude,
                  speed |-> p.speed, course |-> p.course, ignition |-> <<>>,
                  event_type |-> p.event_type,
                  conn |-> conn, lineno |-> lineno])

Logged(c, data, outcome) ==
    log' = [log EXCEPT ![c] = Append(@, [data |-> data, outcome |-> outcome])]

Consumed(c, data) ==
    stream' = [stream EXCEPT ![c] = SubSeq(@, Len(data) + 1, Len(@))]

\* message = data.decode().strip(), then self._decode_message(message)
DecodeLine(data) == DecodeMessage(Strip(Value(BytesDecode(data))))

\* DecodeLine of every line of text the devices send, computed once
DecodedLines ==
    [data \in {d \in Chunks \cup PartialChunks : ~Raised(BytesDecode(d))}
        |-> DecodeLine(data)]

Decoded(data) == DecodedLines[data]

\* handle_client, readline returns b"": break, writer.close(), wait_closed()
ReadEof(c) ==
    /\ task[c] = "reading" /\ LineReady(c)
    /\ ReadLine(stream[c]) = <<>>
    /\ task' = [task EXCEPT ![c] = "done"]
    /\ transport_closed' = [transport_closed EXCEPT ![c] = TRUE]
    /\ Logged(c, <<>>, "eof")
    /\ UNCHANGED <<stream, peer_eof, sent, positions>>
    /\ UNCHANGED <<broadcasterVars, callVars, notifyVars, webVars>>

\* handle_client, data.decode() raises outside the try: the exception ends the
\* task before writer.close().  asyncio closes the transport of a failed
\* handler from Python 3.12 on and leaves it open before.
ReadUndecodable(c) ==
    /\ task[c] = "reading" /\ LineReady(c)
    /\ \E data \in {ReadLine(stream[c])} :
       /\ data # <<>> /\ Raised(BytesDecode(data))
       /\ Consumed(c, data)
       /\ Logged(c, data, "unhandled")
    /\ task' = [task EXCEPT ![c] = "failed"]
    /\ \E closes \in BOOLEAN :
         transport_closed' = [transport_closed EXCEPT ![c] = closes]
    /\ UNCHANGED <<peer_eof, sent, positions>>
    /\ UNCHANGED <<broadcasterVars, callVars, notifyVars, webVars>>

\* handle_client, _decode_message raises: logged, the loop goes on
ReadDropped(c) ==
    /\ task[c] = "reading" /\ LineReady(c)
    /\ \E data \in {ReadLine(stream[c])} :
       /\ data # <<>> /\ ~Raised(BytesDecode(data))
       /\ Raised(Decoded(data))
       /\ Consumed(c, data)
       /\ Logged(c, data, "decode_error")
    /\ UNCHANGED <<peer_eof, task, transport_closed, sent, positions>>
    /\ UNCHANGED <<broadcasterVars, callVars, notifyVars, webVars>>

\* handle_client, the message decodes and save_position commits the row
ReadSaved(c) ==
    /\ task[c] = "reading" /\ LineReady(c)
    /\ \E data \in {ReadLine(stream[c])} :
       /\ data # <<>> /\ ~Raised(BytesDecode(data))
       /\ ~Raised(Decoded(data))
       /\ Consumed(c, data)
       /\ positions' = SavePosition(positions, Value(Decoded(data)), c,
                                    Len(log[c]) + 1)
       /\ Logged(c, data, "saved")
    /\ UNCHANGED <<peer_eof, task, transport_closed, sent>>
    /\ UNCHANGED <<broadcasterVars, callVars, notifyVars, webVars>>

\* handle_client, the message decodes and save_position raises (the storage
\* is out): logged, the loop goes on
ReadSaveFailed(c) ==
    /\ task[c] = "reading" /\ LineReady(c)
    /\ \E data \in {ReadLine(stream[c])} :
       /\ data # <<>> /\ ~Raised(BytesDecode(data))
       /\ ~Raised(Decoded(data))
       /\ Consumed(c, data)
       /\ Logged(c, data, "save_error")
    /\ UNCHANGED <<peer_eof, task, transport_closed, sent, positions>>
    /\ UNCHANGED <<broadcasterVars, callVars, notifyVars, webVars>>

\* one step of handle_client for connection c
HandleClient(c) ==
    \/ ReadEof(c) \/ ReadUndecodable(c) \/ ReadDropped(c)
    \/ ReadSaved(c) \/ ReadSaveFailed(c)

Next ==
    \/ \E c \in Conns : Accept(c)
    \/ \E c \in Conns : \E chunk \in ChunksOf(c) : PeerSend(c, chunk)
    \/ \E c \in Conns : PeerClose(c)
    \/ \E c \in Conns : ReadEof(c)
    \/ \E c \in Conns : ReadUndecodable(c)
    \/ \E c \in Conns : ReadDropped(c)
    \/ \E c \in Conns : ReadSaved(c)
    \/ \E c \in Conns : ReadSaveFailed(c)

Spec == Init /\ [][Next]_vars

\* the device writes its last bytes, a line without the newline, and closes
\* its side of the connection
PeerSendLast(c, chunk) ==
    /\ task[c] # "none" /\ ~peer_eof[c] /\ TotalSent < MaxSends
    /\ stream' = [stream EXCEPT ![c] = @ \o chunk]
    /\ sent' = [sent EXCEPT ![c] = Append(@, chunk)]
    /\ peer_eof' = [peer_eof EXCEPT ![c] = TRUE]
    /\ UNCHANGED <<task, transport_closed, log, positions>>
    /\ UNCHANGED <<broadcasterVars, callVars, notifyVars, webVars>>

\* the connection server with devices that close after a line without a
\* newline
NextPartial ==
    \/ \E c \in Conns : Accept(c)
    \/ \E c \in Conns : \E chunk \in FewChunks : PeerSend(c, chunk)
    \/ \E c \in Conns : \E chunk \in PartialChunks : PeerSendLast(c, chunk)
    \/ \E c \in Conns : PeerClose(c)
    \/ \E c \in Conns : HandleClient(c)

SpecPartial == Init /\ [][NextPartial]_vars

----------------------------------------------------------------------------
(* The live broadcaster: register, unregister and broadcast as tasks of one *)
(* event loop.  A task runs without interruption between two awaits; the    *)
(* await that suspends broadcast is connection.send_json.                   *)

\* the calls of broadcast that are suspended in a send
Sending == {n \in Publishes : broadcasts[n].pc = "sending"}

\* the calls of broadcast that have ended
Ended == {n \in Publishes : broadcasts[n].pc \in {"returned", "raised"}}

\* (a variant whose iterator runs over every websocket there is)
AheadOfAll(b) == Sockets \ b.behind

\* the entries of self._connections that the set iterator of b has not gone
\* past
Ahead(b) == _connections \ b.behind

\* what the suspended calls other than n record when the connections gone
\* leave the set
Disturbed(n, b, gone) ==
    [m \in Publishes |->
        IF m = n THEN b
        ELSE IF m \in Sending
        THEN [broadcasts[m] EXCEPT !.changed = TRUE, !.kept = @ \ gone]
        ELSE broadcasts[m]]

\* (a variant that is set.remove: KeyError when the element is absent)
Remove(set, w) ==
    [set |-> set \ {w}, error |-> IF w \in set THEN "none" ELSE "KeyError"]

\* set.discard, the body of LiveBroadcaster.unregister: the set without the
\* element, and no error when the element is absent
Discard(set, w) == [set |-> set \ {w}, error |-> "none"]

\* for connection in stale: self.unregister(connection); an error ends the
\* loop
RECURSIVE UnregisterAll(_, _)
UnregisterAll(set, stale) ==
    IF stale = <<>> THEN [set |-> set, error |-> "none"]
    ELSE IF Discard(set, Head(stale)).error # "none"
    THEN Discard(set, Head(stale))
    ELSE UnregisterAll(Discard(set, Head(stale)).set, Tail(stale))

\* (a variant that puts the item at the head of the queue)
PutFirst(queue, item) == <<item>> \o queue

\* asyncio.Queue._put: the item goes to the end of the queue
Put(queue, item) == Append(queue, item)

\* asyncio.Queue._wakeup_next(self._getters): the waiters are taken from the
\* left until one is found whose future is not done; that one is woken
RECURSIVE WakeupNext(_, _)
WakeupNext(getters, states) ==
    IF getters = <<>> THEN [getters |-> getters, states |-> states]
    ELSE IF states[Head(getters)] = "waiting"
    THEN [getters |-> Tail(getters),
          states |-> [states EXCEPT ![Head(getters)] = "woken"]]
    ELSE WakeupNext(Tail(getters), states)

\* broadcast, from the point where the for statement asks the set iterator
\* for the next connection, up to the next await that suspends; b is the
\* state of call n at that point.  The iterator raises RuntimeError when the
\* size of the set is not the one it was made with; when nothing is ahead
\* the loop ends, the stale connections are unregistered and the payload is
\* put on the queue, which wakes the first consumer that waits for an item;
\* otherwise some connection ahead, in the order of the hash table, is the
\* next one and send_json is called with the payload.
NextConnection(n, b) ==
    IF Cardinality(_connections) # b.used
    THEN /\ broadcasts' = [broadcasts EXCEPT ![n] =
                [b EXCEPT !.pc = "raised", !.cur = "", !.error = "RuntimeError"]]
         /\ UNCHANGED <<_connections, _event_queue, attempts, accepts,
                        unregistered, streamVars>>
    ELSE IF Ahead(b) = {}
    THEN \E u \in {UnregisterAll(_connections, b.stale)} :
         /\ _connections' = u.set
         /\ IF u.error # "none"
            THEN /\ broadcasts' =
                        Disturbed(n, [b EXCEPT !.pc = "raised", !.cur = "",
                                               !.error = u.error],
                                  _connections \ u.set)
                 /\ UNCHANGED <<_event_queue, streamVars>>
            ELSE /\ _event_queue' = Put(_event_queue, n)
                 /\ \E k \in {WakeupNext(_getters, sse)} :
                        /\ _getters' = k.getters
                        /\ sse' = k.states
                 /\ broadcasts' =
                        IF u.set = _connections
                        THEN [broadcasts EXCEPT ![n] =
                                  [b EXCEPT !.pc = "returned", !.cur = ""]]
                        ELSE Disturbed(n, [b EXCEPT !.pc = "returned", !.cur = ""],
                                       _connections \ u.set)
                 /\ UNCHANGED yielded
         /\ UNCHANGED <<attempts, accepts, unregistered>>
    ELSE \E w \in Ahead(b) :
         /\ broadcasts' = [broadcasts EXCEPT ![n] =
                               [b EXCEPT !.pc = "sending", !.cur = w,
                                         !.behind = @ \cup {w}]]
         /\ attempts' = [attempts EXCEPT ![w] = Append(@, n)]
         /\ UNCHANGED <<_connections, _event_queue, accepts, unregistered,
                        streamVars>>

\* LiveBroadcaster.register, after websocket.accept(): the websocket is added.
\* A websocket that is in the set already leaves the set as it is.  Where a
\* new one lands in the hash table, ahead of or behind the iterator of a
\* suspended broadcast, depends on its hash: both happen.
Register(w) ==
    /\ accepts < MaxRegisters
    /\ accepts' = accepts + 1
    /\ _connections' = _connections \cup {w}
    /\ \E B \in IF w \in _connections THEN {{}} ELSE SUBSET Sending :
          broadcasts' =
              [n \in Publishes |->
                  IF n \in Sending /\ w \notin _connections
                  THEN [broadcasts[n] EXCEPT
                           !.behind = IF n \in B THEN @ \cup {w} ELSE @ \ {w},
                           !.changed = TRUE, !.failed = @ \ {w}, !.barred = @ \ {w}]
                  ELSE [broadcasts[n] EXCEPT !.failed = @ \ {w}, !.barred = @ \ {w}]]
    /\ UNCHANGED <<ws_messages, _event_queue, attempts, unregistered, streamVars,
                   serverVars, callVars, notifyVars, webVars>>

\* LiveBroadcaster.unregister, called by websocket_positions when the client
\* disconnects
Unregister(w) ==
    /\ \E d \in {Discard(_connections, w)} :
          /\ _connections' = d.set
          /\ unregistered' =
                 [ws |-> w, found |-> w \in _connections, error |-> d.error]
    /\ broadcasts' = IF w \in _connections
                     THEN Disturbed(0, NoBroadcast, {w})
                     ELSE broadcasts
    /\ UNCHANGED <<ws_messages, _event_queue, attempts, accepts, streamVars,
                   serverVars, callVars, notifyVars, webVars>>

\* LiveBroadcaster.broadcast is called with payload n: stale = [], the
\* iterator is made, and the call runs to its first await
BroadcastCall(n) ==
    /\ broadcasts[n].pc = "idle"
    /\ \A m \in 1..(n - 1) : broadcasts[m].pc # "idle"
    /\ NextConnection(n, [NoBroadcast EXCEPT
                             !.used = Cardinality(_connections),
                             !.start = _connections, !.kept = _connections,
                             !.barred = UNION {broadcasts[m].failed : m \in Ended},
                             !.prior = {m \in Publishes :
                                            broadcasts[m].pc = "returned"}])

\* a task calls broadcaster.broadcast with payload n
Broadcast(n) ==
    /\ BroadcastCall(n)
    /\ UNCHANGED <<ws_messages, serverVars, callVars, notifyVars, webVars>>

\* the pending send_json of call n returns: the websocket has the payload
SendJsonReturns(n) ==
    /\ n \in Sending
    /\ ws_messages' = [ws_messages EXCEPT ![broadcasts[n].cur] = Append(@, n)]
    /\ NextConnection(n, broadcasts[n])
    /\ UNCHANGED <<serverVars, callVars, notifyVars, webVars>>

\* the pending send_json of call n raises: the connection goes to stale
SendJsonRaises(n) ==
    /\ n \in Sending
    /\ NextConnection(n, [broadcasts[n] EXCEPT
                             !.stale = Append(@, broadcasts[n].cur),
                             !.failed = @ \cup {broadcasts[n].cur}])
    /\ UNCHANGED <<ws_messages, serverVars, callVars, notifyVars, webVars>>

NextLive ==
    \/ \E w \in Sockets : Register(w)
    \/ \E w \in Sockets : Unregister(w)
    \/ \E n \in Publishes : Broadcast(n)
    \/ \E n \in Publishes : SendJsonReturns(n)
    \/ \E n \in Publishes : SendJsonRaises(n)

SpecLive == Init /\ [][NextLive]_vars

----------------------------------------------------------------------------
(* The stream consumers: each GET /stream/sse runs its own sse_stream       *)
(* generator over the one _event_queue.  A generator is suspended either in *)
(* the await of get, when the queue is empty, or at its yield, while the    *)
(* response sends the event.                                                *)

\* f"data: {json.dumps(payload)}\n\n"
SseEvent(payload) == <<"data: ", payload, "\n\n">>

\* (a variant that reads the first item and leaves it in the queue)
PeekNowait(queue) == [item |-> Head(queue), queue |-> queue]

\* asyncio.Queue.get_nowait on a queue that is not empty: the first item is
\* taken out
GetNowait(queue) == [item |-> Head(queue), queue |-> Tail(queue)]

\* sse_stream from the top of its loop up to the point where it is suspended:
\* get waits, at the end of _getters, while the queue is empty; otherwise it
\* takes the first item, and the generator yields the event made of it
GetAndYield(s) ==
    IF _event_queue = <<>>
    THEN /\ _getters' = Append(_getters, s)
         /\ sse' = [sse EXCEPT ![s] = "waiting"]
         /\ UNCHANGED <<_event_queue, yielded>>
    ELSE \E g \in {GetNowait(_event_queue)} :
         /\ _event_queue' = g.queue
         /\ yielded' = [yielded EXCEPT ![s] = Append(@, SseEvent(g.item))]
         /\ sse' = [sse EXCEPT ![s] = "yielded"]
         /\ UNCHANGED _getters

\* what the stream actions leave alone
notStreamVars ==
    <<_connections, ws_messages, broadcasts, attempts, accepts, unregistered,
      serverVars, callVars, notifyVars, webVars>>

\* sse_positions: a client asks for the stream; the response starts to run
\* the generator
SsePositions(s) ==
    /\ sse[s] = "none"
    /\ GetAndYield(s)
    /\ UNCHANGED notStreamVars

\* the event was sent to the client and the response asks the generator for
\* the next one
SseNext(s) ==
    /\ sse[s] = "yielded"
    /\ GetAndYield(s)
    /\ UNCHANGED notStreamVars

\* a consumer that a put has woken runs again: get looks at the queue again
SseResume(s) ==
    /\ sse[s] = "woken"
    /\ GetAndYield(s)
    /\ UNCHANGED notStreamVars

\* the client goes away and the task of the response is cancelled.  At the
\* yield the generator is dropped; in get the future of the consumer is
\* cancelled when it is still pending, and the consumer runs once more, to
\* take the CancelledError.
SseDisconnect(s) ==
    /\ sse[s] \in {"waiting", "woken", "yielded"}
    /\ sse' = [sse EXCEPT ![s] = CASE sse[s] = "waiting" -> "waiting_cancelled"
                                   [] sse[s] = "woken" -> "woken_cancelled"
                                   [] OTHER -> "closed"]
    /\ UNCHANGED <<_event_queue, _getters, yielded, notStreamVars>>

\* the cancelled consumer runs: the except clause of get takes the consumer
\* out of _getters when it is still there and, when the consumer had been
\* woken and the queue is not empty, wakes the next one in line
SseCancelled(s) ==
    /\ sse[s] \in {"waiting_cancelled", "woken_cancelled"}
    /\ \E k \in {IF sse[s] = "woken_cancelled" /\ _event_queue # <<>>
                 THEN WakeupNext(SelectSeq(_getters, LAMBDA g : g # s), sse)
                 ELSE [getters |-> SelectSeq(_getters, LAMBDA g : g # s),
                       states |-> sse]} :
          /\ _getters' = k.getters
          /\ sse' = [k.states EXCEPT ![s] = "closed"]
    /\ UNCHANGED <<_event_queue, yielded, notStreamVars>>

NextStream ==
    \/ \E n \in Publishes : Broadcast(n)
    \/ \E s \in Streams : SsePositions(s)
    \/ \E s \in Streams : SseNext(s)
    \/ \E s \in Streams : SseResume(s)
    \/ \E s \in Streams : SseDisconnect(s)
    \/ \E s \in Streams : SseCancelled(s)

SpecStream == Init /\ [][NextStream]_vars

----------------------------------------------------------------------------
(* integrations/notifications.py: the message and its JSON form *)

Key_channel == <<"c", "h", "a", "n", "n", "e", "l">>
Key_recipient == <<"r", "e", "c", "i", "p", "i", "e", "n", "t">>
Key_subject == <<"s", "u", "b", "j", "e", "c", "t">>
Key_body == <<"b", "o", "d", "y">>
Key_metadata == <<"m", "e", "t", "a", "d", "a", "t", "a">>
Key_device_token == <<"d", "e", "v", "i", "c", "e", "_", "t", "o", "k", "e", "n">>
Key_platform == <<"p", "l", "a", "t", "f", "o", "r", "m">>
Chan_email == <<"e", "m", "a", "i", "l">>
Chan_sms == <<"s", "m", "s">>
Chan_push == <<"p", "u", "s", "h">>

\* NotificationMessage(channel, recipient, subject, body, metadata): each
\* field holds a Python value (a str, None, a dict of scalars)
NotificationMessage(channel, recipient, subject, body, metadata) ==
    [channel |-> channel, recipient |-> recipient, subject |-> subject,
     body |-> body, metadata |-> metadata]

\* json.dumps of a scalar or of a dict of scalars
JsonDumpsValue(j) == IF j.t = "obj" THEN JsonDumps(j.v) ELSE JsonDumpsScalar(j)

\* json.dumps of a dict whose values are scalars or dicts of scalars
RECURSIVE JsonDumpsDocMembers(_, _)
JsonDumpsDocMembers(pairs, i) ==
    IF i > Len(pairs) THEN <<>>
    ELSE (IF i > 1 THEN <<",", " ">> ELSE <<>>)
         \o JsonDumpsScalar(JStr(pairs[i][1])) \o <<":", " ">>
         \o JsonDumpsValue(pairs[i][2])
         \o JsonDumpsDocMembers(pairs, i + 1)

JsonDumpsDoc(pairs) == <<"{">> \o JsonDumpsDocMembers(pairs, 1) \o <<"}">>

\* (a variant that leaves the metadata out)
ToJsonFlat(message) ==
    JsonDumpsDoc(<< <<Key_channel, message.channel>>,
                    <<Key_recipient, message.recipient>>,
                    <<Key_subject, message.subject>>,
                    <<Key_body, message.body>> >>)

\* NotificationMessage.to_json
ToJson(message) ==
    JsonDumpsDoc(<< <<Key_channel, message.channel>>,
                    <<Key_recipient, message.recipient>>,
                    <<Key_subject, message.subject>>,
                    <<Key_body, message.body>>,
                    <<Key_metadata, message.metadata>> >>)

\* the index of the first "}" among the tokens from i on, 0 when there is
\* none
FirstClose(toks, i) ==
    IF \E j \in i..Len(toks) : toks[j].k = "}"
    THEN CHOOSE j \in i..Len(toks) :
             toks[j].k = "}" /\ \A h \in i..(j - 1) : toks[h].k # "}"
    ELSE 0

\* the value that starts at token i, a scalar or an object of scalars, and
\* the index of the token after it
JsonValueAt(toks, i) ==
    IF i > Len(toks) THEN [ok |-> FALSE, v |-> JNull, next |-> i]
    ELSE IF toks[i].k = "val" THEN [ok |-> TRUE, v |-> toks[i].v, next |-> i + 1]
    ELSE IF toks[i].k # "{" \/ FirstClose(toks, i) = 0
         THEN [ok |-> FALSE, v |-> JNull, next |-> i]
    ELSE IF FirstClose(toks, i) = i + 1
         THEN [ok |-> TRUE, v |-> JObj(<<>>), next |-> i + 2]
    ELSE CHOOSE res \in
             {[ok |-> r.ok, v |-> JObj(r.ms), next |-> FirstClose(toks, i) + 1] :
                  r \in {JsonMembers(SubSeq(toks, i + 1,
                                            FirstClose(toks, i) - 1))}} : TRUE

\* the members of an object whose values are scalars or objects of scalars,
\* from token i on
RECURSIVE JsonDocMembersFrom(_, _)
JsonDocMembersFrom(toks, i) ==
    IF Len(toks) < i + 2 \/ toks[i].k # "val" \/ toks[i].v.t # "str"
       \/ toks[i + 1].k # ":"
    THEN [ok |-> FALSE, ms |-> <<>>]
    ELSE CHOOSE res \in
             {IF ~v.ok THEN [ok |-> FALSE, ms |-> <<>>]
              ELSE IF v.next > Len(toks)
                   THEN [ok |-> TRUE, ms |-> <<<<toks[i].v.v, v.v>>>>]
              ELSE IF toks[v.next].k # "," THEN [ok |-> FALSE, ms |-> <<>>]
              ELSE CHOOSE r \in
                       {[ok |-> rest.ok,
                         ms |-> <<<<toks[i].v.v, v.v>>>> \o rest.ms] :
                            rest \in {JsonDocMembersFrom(toks, v.next + 1)}} : TRUE :
                  v \in {JsonValueAt(toks, i + 2)}} : TRUE

\* json.loads of a text that holds such an object
JsonLoadsDoc(s) ==
    CHOOSE res \in
        {IF toks = <<>> \/ \E i \in 1..Len(toks) : toks[i].k = "error"
         THEN Raise("JSONDecodeError")
         ELSE IF Len(toks) < 2 \/ toks[1].k # "{" \/ toks[Len(toks)].k # "}"
              THEN Raise("JSONDecodeError")
         ELSE IF Len(toks) = 2 THEN Return(JObj(<<>>))
         ELSE CHOOSE r \in
                  {IF m.ok THEN Return(JObj(m.ms)) ELSE Raise("JSONDecodeError") :
                       m \in {JsonDocMembersFrom(SubSeq(toks, 2, Len(toks) - 1), 1)}} : TRUE :
             toks \in {JsonLex(s)}} : TRUE

\* key in dict
HasKey(pairs, key) == \E i \in 1..Len(pairs) : pairs[i][1] = key

\* (a variant that takes {} for a metadata that is null)
FromJsonOrEmpty(raw) ==
    CHOOSE res \in
        {IF Raised(data) THEN data
         ELSE IF Value(data).t # "obj" THEN Raise("TypeError")
         ELSE IF ~HasKey(Value(data).v, Key_channel)
                 \/ ~HasKey(Value(data).v, Key_recipient)
              THEN Raise("KeyError")
         ELSE Return(NotificationMessage(
                  DictGet(Value(data).v, Key_channel),
                  DictGet(Value(data).v, Key_recipient),
                  DictGet(Value(data).v, Key_subject),
                  DictGet(Value(data).v, Key_body),
                  IF HasKey(Value(data).v, Key_metadata)
                     /\ DictGet(Value(data).v, Key_metadata) # JNull
                  THEN DictGet(Value(data).v, Key_metadata)
                  ELSE JObj(<<>>))) :
             data \in {JsonLoadsDoc(raw)}} : TRUE

\* NotificationMessage.from_json: data["channel"] and data["recipient"] must
\* be there; subject and body are None when missing, metadata is {}
FromJson(raw) ==
    CHOOSE res \in
        {IF Raised(data) THEN data
         ELSE IF Value(data).t # "obj" THEN Raise("TypeError")
         ELSE IF ~HasKey(Value(data).v, Key_channel)
                 \/ ~HasKey(Value(data).v, Key_recipient)
              THEN Raise("KeyError")
         ELSE Return(NotificationMessage(
                  DictGet(Value(data).v, Key_channel),
                  DictGet(Value(data).v, Key_recipient),
                  DictGet(Value(data).v, Key_subject),
                  DictGet(Value(data).v, Key_body),
                  IF HasKey(Value(data).v, Key_metadata)
                  THEN DictGet(Value(data).v, Key_metadata)
                  ELSE JObj(<<>>))) :
             data \in {JsonLoadsDoc(raw)}} : TRUE

----------------------------------------------------------------------------
(* api.py: POST /ingest/http.  A float of the request body is a number, in  *)
(* millionths, or nan (json.loads reads NaN, and the float field takes it). *)

Num(v) == [nan |-> FALSE, v |-> v]
NaN == [nan |-> TRUE, v |-> 0]

\* x < y of two floats: False when one of them is nan
FloatLt(x, y) == ~x.nan /\ ~y.nan /\ x.v < y.v

\* min(a, b) and max(a, b) of Python: the first argument, unless the second
\* is smaller (greater)
PyMin(a, b) == IF FloatLt(b, a) THEN b ELSE a
PyMax(a, b) == IF FloatLt(a, b) THEN b ELSE a

\* (a variant that leaves the coordinates as they are sent)
NormalizedAsSent(payload) ==
    [payload EXCEPT !.timestamp = IF @ = <<>> THEN <<UtcNow>> ELSE @]

\* IngestPayload.normalized
Normalized(payload) ==
    [latitude |-> PyMax(PyMin(payload.latitude, Num(90 * Million)), Num(-90 * Million)),
     longitude |-> PyMax(PyMin(payload.longitude, Num(180 * Million)),
                         Num(-180 * Million)),
     speed |-> payload.speed, course |-> payload.course,
     ignition |-> payload.ignition, event_type |-> payload.event_type,
     timestamp |-> IF payload.timestamp = <<>> THEN <<UtcNow>> ELSE payload.timestamp]

\* the devices table: the devices the tests create
Devices ==
    <<[id |-> "realtime-dev", token |-> "token-123"],
      [id |-> "dev-1", token |-> "secret-token"]>>

\* (a variant that falls back on the first device)
get_device_or_first(token) ==
    IF \E i \in 1..Len(Devices) : Devices[i].token = token
    THEN <<Devices[CHOOSE i \in 1..Len(Devices) : Devices[i].token = token]>>
    ELSE <<Devices[1]>>

\* database.get_device_by_token: the device with that token, <<>> for None
get_device_by_token(token) ==
    IF \E i \in 1..Len(Devices) : Devices[i].token = token
    THEN <<Devices[CHOOSE i \in 1..Len(Devices) : Devices[i].token = token]>>
    ELSE <<>>

\* database.save_position as ingest_http calls it: the row that is committed
\* (call is the call of ingest_http the row comes from)
SaveIngested(rows, device_id, normalized, call_no) ==
    Append(rows, [device_id |-> device_id,
                  timestamp |-> normalized.timestamp[1],
                  latitude |-> normalized.latitude,
                  longitude |-> normalized.longitude,
                  speed |-> normalized.speed, course |-> normalized.course,
                  ignition |-> normalized.ignition,
                  event_type |-> normalized.event_type,
                  conn |-> "http", lineno |-> call_no])

\* PositionResponse.from_orm(position).dict()
PositionResponse(position) ==
    [device_id |-> position.device_id,
     timestamp |-> IsoFormat(position.timestamp),
     latitude |-> position.latitude, longitude |-> position.longitude,
     speed |-> position.speed, course |-> position.course,
     ignition |-> position.ignition, event_type |-> position.event_type]

\* the request bodies of the model
IngestPayload(latitude, longitude) ==
    [latitude |-> latitude, longitude |-> longitude, speed |-> <<50 * Million>>,
     course |-> <<>>, ignition |-> <<TRUE>>, event_type |-> <<>>,
     timestamp |-> <<>>]

IngestPayloads ==
    {IngestPayload(Num(40 * Million), Num(-3 * Million)),
     IngestPayload(Num(95 * Million), Num(-200 * Million)),
     IngestPayload(Num(-90 * Million - 1), Num(180 * Million + 1)),
     IngestPayload(NaN, Num(0)),
     IngestPayload(Num(0), NaN)}

\* the values of the X-Device-Token header
Tokens == {"token-123", "secret-token", "bad", ""}

\* up to this many calls of ingest_http
MaxIngests == 2

\* the calls of broadcast that have not started
IdlePublishes == {n \in Publishes : broadcasts[n].pc = "idle"}

\* what a call of ingest_http leaves alone
notIngestVars ==
    <<stream, peer_eof, task, transport_closed, sent, log, ws_messages,
      callVars, notifyVars, limiterVars, loginVars>>

\* ingest_http(payload, x_device_token), up to its first await that suspends
\* (a send_json of the broadcast) or to its end.  A token that no device has
\* raises HTTPException 401.  The commit of a row whose latitude or longitude
\* is nan depends on the database: SQLite binds nan as NULL and the NOT NULL
\* column raises IntegrityError, PostgreSQL stores NaN.  body is the request
\* body, payload what the
\* call passes to broadcast, publish the call of broadcast that it makes, 0
\* when it makes none; how the call ends after its broadcast is in
\* broadcasts[publish].
IngestHttp(token, payload) ==
    /\ Len(ingests) < MaxIngests
    /\ IdlePublishes # {}
    /\ \E device \in {get_device_by_token(token)} :
       \E normalized \in {Normalized(payload)} :
       \E n \in {CHOOSE n \in IdlePublishes : \A m \in IdlePublishes : n <= m} :
       \E commits \in IF normalized.latitude.nan \/ normalized.longitude.nan
                      THEN BOOLEAN ELSE {TRUE} :
          IF device = <<>> \/ ~commits
          THEN /\ ingests' = Append(ingests,
                      [token |-> token, body |-> payload,
                       error |-> IF device = <<>> THEN "HTTPException 401"
                                 ELSE "IntegrityError",
                       position |-> <<>>, payload |-> <<>>, publish |-> 0])
               /\ UNCHANGED <<positions, broadcasterVars>>
          ELSE \E rows \in {SaveIngested(positions, device[1].id, normalized,
                                         Len(ingests) + 1)} :
               /\ positions' = rows
               /\ ingests' = Append(ingests,
                      [token |-> token, body |-> payload, error |-> "none",
                       position |-> <<rows[Len(rows)]>>,
                       payload |-> <<PositionResponse(rows[Len(rows)])>>,
                       publish |-> n])
               /\ BroadcastCall(n)
    /\ UNCHANGED notIngestVars

\* requests to /ingest/http with every token and body of the model, and
\* websockets that connect
NextIngest ==
    \/ \E token \in Tokens : \E payload \in IngestPayloads : IngestHttp(token, payload)
    \/ \E w \in Sockets : Register(w)
    \/ \E n \in Publishes : SendJsonReturns(n)

SpecIngest == Init /\ [][NextIngest]_vars

\* requests to /ingest/http from the two devices and from a client without a
\* valid token, with websockets that connect and disconnect
NextIngestLive ==
    \/ \E token \in {"token-123", "secret-token", "bad"} :
          IngestHttp(token, IngestPayload(Num(95 * Million), Num(-200 * Million)))
    \/ \E w \in Sockets : Register(w)
    \/ \E w \in Sockets : Unregister(w)
    \/ \E n \in Publishes : SendJsonReturns(n)

SpecIngestLive == Init /\ [][NextIngestLive]_vars

----------------------------------------------------------------------------
(* integrations/notifications.py: the providers and the dispatcher *)

\* EmailProvider.send
EmailSend(message) ==
    Return([provider |-> "ses", recipient |-> message.recipient,
            subject |-> message.subject])

\* SmsProvider.send; from_number is the default, TWILIO_FROM not being set
SmsSend(message) ==
    Return([provider |-> "twilio", recipient |-> message.recipient,
            from |-> "+10000000000"])

\* PushProvider.send, FCM_KEY not being set: message.metadata.get raises
\* AttributeError when metadata is no dict
PushSend(message) ==
    IF message.metadata.t # "obj" THEN Raise("AttributeError")
    ELSE Return([provider |->
                     IF HasKey(message.metadata.v, Key_platform)
                     THEN DictGet(message.metadata.v, Key_platform)
                     ELSE JStr(<<"a", "p", "n", "s">>),
                 target |->
                     IF Truthy(DictGet(message.metadata.v, Key_device_token))
                     THEN DictGet(message.metadata.v, Key_device_token)
                     ELSE message.recipient,
                 title |-> message.subject])

\* the send of a provider
Send(provider, message) ==
    CASE provider = "email_provider" -> EmailSend(message)
      [] provider = "sms_provider" -> SmsSend(message)
      [] OTHER -> PushSend(message)

\* (a variant in which push goes to the SMS provider)
RoutesMixed(channel) ==
    CASE channel = JStr(Chan_email) -> "email_provider"
      [] channel = JStr(Chan_sms) -> "sms_provider"
      [] channel = JStr(Chan_push) -> "sms_provider"
      [] OTHER -> ""

\* (a variant with a default route)
RoutesDefault(channel) ==
    CASE channel = JStr(Chan_email) -> "email_provider"
      [] channel = JStr(Chan_sms) -> "sms_provider"
      [] channel = JStr(Chan_push) -> "push_provider"
      [] OTHER -> "email_provider"

\* self._routes.get(message.channel): the provider whose send is the
\* handler, "" for None
Routes(channel) ==
    CASE channel = JStr(Chan_email) -> "email_provider"
      [] channel = JStr(Chan_sms) -> "sms_provider"
      [] channel = JStr(Chan_push) -> "push_provider"
      [] OTHER -> ""

\* NotificationDispatcher.dispatch: what the call returns or raises, and
\* the providers whose send it called
Dispatch(message) ==
    IF Routes(message.channel) = ""
    THEN [outcome |-> Raise("ValueError"), calls |-> <<>>]
    ELSE [outcome |-> Send(Routes(message.channel), message),
          calls |-> <<Routes(message.channel)>>]

\* the calls of send that a dispatch made, added to the record of each
\* provider
RECURSIVE Invoke(_, _, _)
Invoke(inv, calls, message) ==
    IF calls = <<>> THEN inv
    ELSE Invoke([inv EXCEPT ![Head(calls)] =
                     Append(@, [message |-> message,
                                outcome |-> Send(Head(calls), message)])],
                Tail(calls), message)

\* the messages of the model
Text_u == JStr(<<"u">>)
Msg_push ==
    NotificationMessage(JStr(Chan_push), Text_u, JStr(<<"s">>), JNull,
                        JObj(<< <<Key_device_token, JStr(<<"t">>)>> >>))
Msg_push_bare == NotificationMessage(JStr(Chan_push), Text_u, JNull, JNull, JNull)
Msg_email ==
    NotificationMessage(JStr(Chan_email), Text_u, JStr(<<"s">>), JStr(<<"b">>),
                        JObj(<<>>))
Msg_sms == NotificationMessage(JStr(Chan_sms), Text_u, JNull, JStr(<<"b">>), JObj(<<>>))
Msg_pigeon ==
    NotificationMessage(JStr(<<"c", "a", "r", "r", "i", "e", "r", "-", "p", "i", "g", "e", "o", "n">>), Text_u, JNull,
                        JNull, JObj(<<>>))
Msg_Email == NotificationMessage(JStr(<<"E", "m", "a", "i", "l">>), Text_u, JNull, JNull, JObj(<<>>))
Msg_empty == NotificationMessage(JStr(<<>>), Text_u, JNull, JNull, JObj(<<>>))
Msg_none == NotificationMessage(JNull, Text_u, JNull, JNull, JObj(<<>>))

\* the messages that are enqueued
QueuedMessages == {Msg_push, Msg_push_bare, Msg_email, Msg_sms, Msg_pigeon}

\* the messages dispatch is called with
DispatchedMessages == QueuedMessages \cup {Msg_Email, Msg_empty, Msg_none}

----------------------------------------------------------------------------
(* integrations/notifications.py: the queue and the worker.  The tasks run *)
(* on one event loop; a task runs without interruption from one await that *)
(* suspends to the next.  BLPOP is a blocking call of the Redis client: no *)
(* task runs while it blocks.                                              *)

\* a BLPOP with timeout 0 on the empty list is in progress: it blocks until
\* some other process pushes
Blocked == \E c \in Callers : procs[c].pc = "blocked"

Pcs == [p \in Procs |-> procs[p].pc]
WithPcs(ps, states) == [p \in Procs |-> [ps[p] EXCEPT !.pc = states[p]]]

\* the payloads that wait in the queue in use
Pending == IF _client = "redis" THEN redis_pending ELSE _memory_queue

\* how many messages of a queue no woken task is about to take
Spare(queue, ps) ==
    IF Len(queue) > Cardinality({p \in Procs : ps[p].pc = "woken"})
    THEN Len(queue) - Cardinality({p \in Procs : ps[p].pc = "woken"})
    ELSE 0

\* (a variant of a queue that holds one item)
FullAtOne(queue) == Len(queue) >= 1

\* self._memory_queue.full(): the queue is made without a maxsize, and put
\* waits only while the queue is full
Full(queue) == FALSE

\* (a variant that pushes at the head of the list)
LPush(list, payload) == <<payload>> \o list

\* self._client.rpush(self.key, payload)
RPush(list, payload) == Append(list, payload)

\* NotificationService.from_env: the queue is made with the Redis client
\* when REDIS_URL is set, without it otherwise
FromEnv(url) ==
    /\ _client = ""
    /\ _client' = IF url THEN "redis" ELSE "none"
    /\ UNCHANGED <<redis_pending, _memory_queue, nq_getters, procs, enqueued,
                   results, _worker_task, starts, dispatchVars, serverVars,
                   broadcasterVars, callVars, webVars>>

\* NotificationQueue.enqueue: the JSON text of the message is pushed to the
\* Redis list or put on the memory queue, which wakes the first task that
\* waits in get
QueueEnqueue(message) ==
    /\ _client # "" /\ ~Blocked
    /\ enqueued' = Append(enqueued, message)
    /\ IF _client = "redis"
       THEN /\ redis_pending' = RPush(redis_pending, ToJson(message))
            /\ UNCHANGED <<_memory_queue, nq_getters, procs>>
       ELSE /\ ~Full(_memory_queue)
            /\ _memory_queue' = Put(_memory_queue, ToJson(message))
            /\ \E k \in {WakeupNext(nq_getters, Pcs)} :
                   /\ nq_getters' = k.getters
                   /\ procs' = WithPcs(procs, k.states)
            /\ UNCHANGED redis_pending
    /\ UNCHANGED <<_client, results, _worker_task, starts, dispatchVars,
                   serverVars, broadcasterVars, callVars, webVars>>

\* NotificationService.enqueue: await self.queue.enqueue(message).  (Each
\* message of the model is enqueued once at most, so that a message tells
\* which enqueue it is from.)
Enqueue(message) ==
    /\ Len(enqueued) < MaxEnqueues
    /\ message \notin Range(enqueued)
    /\ QueueEnqueue(message)

\* the state of task p when its dequeue ends with the outcome: a caller has
\* its result; the worker loop goes on with the message, sleeps after None,
\* and ends when dequeue raises (the call is outside its try)
Finish(ps, p, outcome, left) ==
    [ps EXCEPT ![p] =
        [pc |-> IF p \in Callers THEN "idle"
                ELSE IF Raised(outcome) THEN "ended"
                ELSE IF Value(outcome) = JNull THEN "sleeping"
                ELSE "got",
         timeout |-> 1,
         message |-> IF Raised(outcome) \/ p \in Callers THEN <<>>
                     ELSE IF Value(outcome) = JNull THEN <<>>
                     ELSE <<Value(outcome)>>,
         last |-> <<outcome>>,
         left |-> left]]

\* the dequeue of task p takes the first payload of the queue and returns
\* NotificationMessage.from_json of it
TakeFirst(p) ==
    \E g \in {GetNowait(Pending)} : \E m \in {FromJson(g.item)} :
        /\ IF _client = "redis"
           THEN redis_pending' = g.queue /\ UNCHANGED _memory_queue
           ELSE _memory_queue' = g.queue /\ UNCHANGED redis_pending
        /\ results' = IF Raised(m) THEN results
                      ELSE Append(results, [by |-> p, message |-> Value(m)])
        /\ procs' = Finish(procs, p, m, Spare(g.queue, procs))
        /\ UNCHANGED nq_getters

\* the dequeue of task p returns None
ReturnNone(p) ==
    /\ procs' = Finish(procs, p, Return(JNull), Spare(Pending, procs))
    /\ UNCHANGED <<redis_pending, _memory_queue, results, nq_getters>>

\* task p waits in self._memory_queue.get(), at the end of _getters
WaitInGet(p, t) ==
    /\ nq_getters' = Append(nq_getters, p)
    /\ procs' = [procs EXCEPT ![p].pc = "waiting", ![p].timeout = t]
    /\ UNCHANGED <<redis_pending, _memory_queue, results>>

\* NotificationQueue.dequeue(timeout=t), called by task p, up to its return
\* or to the await that suspends it.  With the Redis client: BLPOP returns
\* the first payload, or None after the timeout, and does not return on an
\* empty list when the timeout is 0.  Without it: asyncio.wait_for of get;
\* a timeout of 0 or less cancels the get before it has run (Python up to
\* 3.11) or lets it run once (from 3.12 on), so that a message that waits
\* is returned by some builds and not by others.
DequeueFrom(p, t) ==
    IF _client = "redis"
    THEN IF redis_pending # <<>> THEN TakeFirst(p)
         ELSE IF t = 0
              THEN /\ procs' = [procs EXCEPT ![p].pc = "blocked", ![p].timeout = t]
                   /\ UNCHANGED <<redis_pending, _memory_queue, results, nq_getters>>
              ELSE ReturnNone(p)
    ELSE IF t <= 0
         THEN \/ ReturnNone(p)
              \/ _memory_queue # <<>> /\ TakeFirst(p)
         ELSE IF _memory_queue # <<>> THEN TakeFirst(p)
              ELSE WaitInGet(p, t)

\* what the actions of the queue and of the worker loop leave alone
notQueueVars == <<dispatchVars, serverVars, broadcasterVars, callVars, webVars>>

\* a task that is not the worker calls queue.dequeue(timeout=t)
DequeueCall(c, t) ==
    /\ _client # "" /\ ~Blocked
    /\ procs[c].pc = "idle"
    /\ DequeueFrom(c, t)
    /\ UNCHANGED <<_client, enqueued, _worker_task, starts, notQueueVars>>

\* a task that a put has woken runs again: get looks at the queue again
DequeueResume(p) ==
    /\ ~Blocked
    /\ procs[p].pc = "woken"
    /\ IF _memory_queue # <<>> THEN TakeFirst(p) ELSE WaitInGet(p, procs[p].timeout)
    /\ UNCHANGED <<_client, enqueued, _worker_task, starts, notQueueVars>>

\* the timeout of wait_for elapses for a task that waits in get: the get is
\* cancelled, asyncio.TimeoutError is caught and dequeue returns None
DequeueTimeout(p) ==
    /\ ~Blocked
    /\ procs[p].pc = "waiting"
    /\ nq_getters' = SelectSeq(nq_getters, LAMBDA g : g # p)
    /\ procs' = Finish(procs, p, Return(JNull), Spare(_memory_queue, procs))
    /\ UNCHANGED <<redis_pending, _memory_queue, results>>
    /\ UNCHANGED <<_client, enqueued, _worker_task, starts, notQueueVars>>

\* how many worker tasks were created
Created == Cardinality({w \in Workers : procs[w].pc # "unborn"})

\* (a variant that never finds a running task)
RunningNever(worker_task) == FALSE

\* self._worker_task and not self._worker_task.done()
Running(worker_task) ==
    worker_task # 0 /\ procs[Worker(worker_task)].pc # "ended"

\* NotificationService.start_worker: nothing when the task is running,
\* else a task is created for _worker_loop
StartWorker ==
    /\ _client # "" /\ ~Blocked
    /\ starts < MaxStarts
    /\ starts' = starts + 1
    /\ IF Running(_worker_task)
       THEN UNCHANGED <<_worker_task, procs>>
       ELSE /\ _worker_task' = Created + 1
            /\ procs' = [procs EXCEPT ![Worker(Created + 1)].pc = "ready"]
    /\ UNCHANGED <<_client, redis_pending, _memory_queue, nq_getters, enqueued,
                   results, notQueueVars>>

\* _worker_loop: message = await self.queue.dequeue(timeout=1)
WorkerDequeue(k) ==
    /\ ~Blocked
    /\ procs[Worker(k)].pc = "ready"
    /\ DequeueFrom(Worker(k), 1)
    /\ UNCHANGED <<_client, enqueued, _worker_task, starts, notQueueVars>>

\* (a variant that catches nothing)
CaughtNever(exc) == FALSE

\* except Exception: every exception but those that are no Exception
Caught(exc) == exc \notin {"CancelledError", "KeyboardInterrupt", "SystemExit"}

\* _worker_loop: await self.dispatcher.dispatch(message) in its try; an
\* exception that is caught is logged and the loop goes on with the next
\* dequeue
WorkerDispatch(k) ==
    /\ ~Blocked
    /\ procs[Worker(k)].pc = "got"
    /\ \E d \in {Dispatch(procs[Worker(k)].message[1])} :
          /\ invoked' = Invoke(invoked, d.calls, procs[Worker(k)].message[1])
          /\ dispatched' = Append(dispatched,
                 [by |-> Worker(k), message |-> procs[Worker(k)].message[1],
                  outcome |-> d.outcome])
          /\ procs' = [procs EXCEPT ![Worker(k)] =
                 IF Raised(d.outcome) /\ ~Caught(d.outcome.exc)
                 THEN [@ EXCEPT !.pc = "ended", !.message = <<>>,
                                !.last = <<d.outcome>>]
                 ELSE [@ EXCEPT !.pc = "ready", !.message = <<>>]]
    /\ UNCHANGED <<_client, redis_pending, _memory_queue, nq_getters, enqueued,
                   results, _worker_task, starts, serverVars, broadcasterVars,
                   callVars, webVars>>

\* _worker_loop: await asyncio.sleep(0.1) is over
WorkerSleeps(k) ==
    /\ ~Blocked
    /\ procs[Worker(k)].pc = "sleeping"
    /\ procs' = [procs EXCEPT ![Worker(k)].pc = "ready"]
    /\ UNCHANGED <<_client, redis_pending, _memory_queue, nq_getters, enqueued,
                   results, _worker_task, starts, notQueueVars>>

\* the worker task is cancelled at one of its awaits (by the owner of the
\* service, or when the loop shuts down) and ends.  A task that waited in
\* get leaves _getters; one that was woken wakes the next in line when the
\* queue is not empty.
WorkerEnds(k) ==
    /\ ~Blocked
    /\ procs[Worker(k)].pc \in {"ready", "waiting", "woken", "sleeping", "sending"}
    /\ \E w \in {IF procs[Worker(k)].pc = "woken" /\ _memory_queue # <<>>
                 THEN WakeupNext(SelectSeq(nq_getters, LAMBDA g : g # Worker(k)), Pcs)
                 ELSE [getters |-> SelectSeq(nq_getters, LAMBDA g : g # Worker(k)),
                       states |-> Pcs]} :
          /\ nq_getters' = w.getters
          /\ procs' = [WithPcs(procs, w.states) EXCEPT ![Worker(k)] =
                 [@ EXCEPT !.pc = "ended", !.last = <<Raise("CancelledError")>>]]
    /\ UNCHANGED <<_client, redis_pending, _memory_queue, enqueued, results,
                   _worker_task, starts, notQueueVars>>

\* _worker_loop, dispatch: return await handler(message), with a provider
\* whose send waits for a service: the worker is suspended in the send
WorkerSendSuspends(k) ==
    /\ ~Blocked
    /\ procs[Worker(k)].pc = "got"
    /\ Routes(procs[Worker(k)].message[1].channel) # ""
    /\ procs' = [procs EXCEPT ![Worker(k)].pc = "sending"]
    /\ UNCHANGED <<_client, redis_pending, _memory_queue, nq_getters, enqueued,
                   results, _worker_task, starts, notQueueVars>>

\* the send in which the worker was suspended returns, or raises when the
\* service fails; the loop goes on as after a dispatch that did not suspend
WorkerSendResumes(k, fails) ==
    /\ ~Blocked
    /\ procs[Worker(k)].pc = "sending"
    /\ \E d \in {Dispatch(procs[Worker(k)].message[1])} :
       \E outcome \in {IF fails THEN Raise("ConnectionError") ELSE d.outcome} :
          /\ invoked' = [invoked EXCEPT ![Head(d.calls)] =
                 Append(@, [message |-> procs[Worker(k)].message[1],
                            outcome |-> outcome])]
          /\ dispatched' = Append(dispatched,
                 [by |-> Worker(k), message |-> procs[Worker(k)].message[1],
                  outcome |-> outcome])
          /\ procs' = [procs EXCEPT ![Worker(k)] =
                 IF Raised(outcome) /\ ~Caught(outcome.exc)
                 THEN [@ EXCEPT !.pc = "ended", !.message = <<>>,
                                !.last = <<outcome>>]
                 ELSE [@ EXCEPT !.pc = "ready", !.message = <<>>]]
    /\ UNCHANGED <<_client, redis_pending, _memory_queue, nq_getters, enqueued,
                   results, _worker_task, starts, serverVars, broadcasterVars,
                   callVars, webVars>>

\* payloads that some other writer left on the list: no JSON, an object
\* without recipient, one without channel
Raw_not_json == <<"h", "i">>
Raw_no_recipient == <<"{", "\"", "c", "h", "a", "n", "n", "e", "l", "\"", ":", " ", "\"", "s", "m", "s", "\"", "}">>
Raw_empty_object == <<"{", "}">>
ForeignPayloads == {Raw_not_json, Raw_no_recipient, Raw_empty_object}

\* up to this many payloads come from another writer
MaxForeign == 1

\* the payloads of the list that no enqueue of this service wrote
Foreign(list) ==
    SelectSeq(list, LAMBDA raw : raw \in ForeignPayloads)

\* another writer of the Redis list notifications:pending (the list outlives
\* the process and is shared by whoever has the key) pushes a payload that
\* is no message
ForeignPush(raw) ==
    /\ _client = "redis" /\ ~Blocked
    /\ Len(Foreign(redis_pending)) < MaxForeign
    /\ redis_pending' = RPush(redis_pending, raw)
    /\ UNCHANGED <<_client, _memory_queue, nq_getters, procs, enqueued, results,
                   _worker_task, starts, notQueueVars>>

\* _worker_loop: the dequeue of the worker raises in self._client.blpop, the
\* connection to Redis being lost for a moment.  The call is outside the try
\* of the loop: the exception ends the task.
WorkerBlpopRaises(k) ==
    /\ _client = "redis" /\ ~Blocked
    /\ procs[Worker(k)].pc = "ready"
    /\ procs' = Finish(procs, Worker(k), Raise("ConnectionError"),
                       Spare(Pending, procs))
    /\ UNCHANGED <<_client, redis_pending, _memory_queue, nq_getters, enqueued,
                   results, _worker_task, starts, notQueueVars>>

\* the queue and the tasks that call dequeue themselves
NextQueue ==
    \/ \E url \in BOOLEAN : FromEnv(url)
    \/ \E message \in QueuedMessages : Enqueue(message)
    \/ \E c \in Callers : \E t \in Timeouts : DequeueCall(c, t)
    \/ \E p \in Procs : DequeueResume(p)
    \/ \E p \in Procs : DequeueTimeout(p)

SpecQueue == Init /\ [][NextQueue]_vars

\* the queue and the worker of the service
NextWorker ==
    \/ \E url \in BOOLEAN : FromEnv(url)
    \/ \E message \in QueuedMessages : Enqueue(message)
    \/ \E p \in Procs : DequeueResume(p)
    \/ \E p \in Procs : DequeueTimeout(p)
    \/ StartWorker
    \/ \E k \in 1..MaxStarts : WorkerDequeue(k)
    \/ \E k \in 1..MaxStarts : WorkerDispatch(k)
    \/ \E k \in 1..MaxStarts : WorkerSleeps(k)
    \/ \E k \in 1..MaxStarts : WorkerEnds(k)

SpecWorker == Init /\ [][NextWorker]_vars

\* the calls of dispatch made outside the worker
DirectDispatches == SelectSeq(dispatched, LAMBDA d : d.by = "caller")

\* a task other than the worker calls dispatcher.dispatch(message)
DispatchCall(message) ==
    /\ Len(DirectDispatches) < MaxDispatches
    /\ \E d \in {Dispatch(message)} :
          /\ invoked' = Invoke(invoked, d.calls, message)
          /\ dispatched' = Append(dispatched,
                 [by |-> "caller", message |-> message, outcome |-> d.outcome])
    /\ UNCHANGED <<queueVars, serverVars, broadcasterVars, callVars, webVars>>

NextDispatch == \E message \in DispatchedMessages : DispatchCall(message)

SpecDispatch == Init /\ [][NextDispatch]_vars

\* the service with providers whose send may wait
NextService ==
    \/ NextWorker
    \/ \E k \in 1..MaxStarts : WorkerSendSuspends(k)
    \/ \E k \in 1..MaxStarts : \E fails \in BOOLEAN : WorkerSendResumes(k, fails)

SpecService == Init /\ [][NextService]_vars

\* the messages enqueued while the backend fails
FaultMessages == {Msg_push, Msg_email}

\* the service with a backend that can fail and a list that other writers
\* share
NextFaults ==
    \/ \E url \in BOOLEAN : FromEnv(url)
    \/ \E message \in FaultMessages : Enqueue(message)
    \/ \E p \in Procs : DequeueResume(p)
    \/ \E p \in Procs : DequeueTimeout(p)
    \/ StartWorker
    \/ \E k \in 1..MaxStarts : WorkerDequeue(k)
    \/ \E k \in 1..MaxStarts : WorkerDispatch(k)
    \/ \E k \in 1..MaxStarts : WorkerSleeps(k)
    \/ \E k \in 1..MaxStarts : WorkerEnds(k)
    \/ \E raw \in ForeignPayloads : ForeignPush(raw)
    \/ \E k \in 1..MaxStarts : WorkerBlpopRaises(k)

SpecFaults == Init /\ [][NextFaults]_vars

\* the steps of the worker task: the event loop runs every task that is
\* ready, timers fire, and a send that was awaited returns or raises
WorkerStep ==
    \/ \E p \in Procs : DequeueResume(p)
    \/ \E p \in Procs : DequeueTimeout(p)
    \/ \E k \in 1..MaxStarts : WorkerDequeue(k)
    \/ \E k \in 1..MaxStarts : WorkerDispatch(k)
    \/ \E k \in 1..MaxStarts : WorkerSleeps(k)
    \/ \E k \in 1..MaxStarts : WorkerSendSuspends(k)
    \/ \E k \in 1..MaxStarts : \E fails \in BOOLEAN : WorkerSendResumes(k, fails)

\* the service whose worker is never cancelled
NextRun ==
    \/ \E url \in BOOLEAN : FromEnv(url)
    \/ \E message \in FaultMessages : Enqueue(message)
    \/ StartWorker
    \/ WorkerStep
    \/ \E raw \in ForeignPayloads : ForeignPush(raw)
    \/ \E k \in 1..MaxStarts : WorkerBlpopRaises(k)

\* the worker task is scheduled fairly
SpecRun == Init /\ [][NextRun]_vars /\ WF_vars(WorkerStep)

----------------------------------------------------------------------------
(* The decoders called directly, on inputs drawn from bounded sets *)

\* messages up to this length, over MsgAlphabet, go to _decode_message
MaxMsgLen == 4
MsgAlphabet == {"|", ",", "a", "1", " "}
Messages == UNION {[1..n -> MsgAlphabet] : n \in 0..MaxMsgLen}

\* protocol tags: a name, written with capitals at some of its first positions
MaxCasePos == 3
TagNames ==
    AdapterNames \cup {<<"g", "t", "0", "6">>, <<>>, <<" ", "c", "o", "n", "c", "o", "x">>,
                       <<"t", "e", "l", "t", "o", "n", "i", "k">>}
CaseMasks == SUBSET (1..MaxCasePos)

\* str.upper() of one ASCII letter
UpperChar(c) ==
    IF c \in Whitespace THEN c
    ELSE IF Ord(c) \in 97..122 THEN Chr(Ord(c) - 32) ELSE c

ApplyCase(name, mask) ==
    [i \in 1..Len(name) |-> IF i \in mask THEN UpperChar(name[i]) ELSE name[i]] \o <<>>

\* payloads handed to decode_with: a tag-value record, a fixed-position
\* record, a 12-byte binary frame in base64, and text that is none of them
TagPayloads ==
    {Encode(SubSeq(Line_teltonika, 11, Len(Line_teltonika))),
     Encode(<<"+", "R", ",", "d", "1", ",", ",", ",", ",", ",", ",", "4", ".", "5",
              ",", "-", "3", ",", ",", ",", "7", ",", "9", "0">>),
     Encode(<<"A", "Q", "I", "D", "B", "P", "/", "/", "/", "/", "8", "A", "A", "A",
              "A", "B">>),
     Encode(<<"{", "x">>)}

\* base64 inputs: up to MaxBlocks pieces, valid quads and stray bytes
MaxBlocks == 4
B64Blocks ==
    {<<65, 65, 65, 65>>, <<47, 119, 61, 61>>, <<65>>, <<61>>, <<33>>, <<255>>}

RECURSIVE Concat(_)
Concat(ss) == IF ss = <<>> THEN <<>> ELSE Head(ss) \o Concat(Tail(ss))

B64Inputs == {Concat(bs) : bs \in UNION {[1..n -> B64Blocks] : n \in 0..MaxBlocks}}

\* positions with every field of the fixed-position variant set
RoundTripPositions ==
    {DecodedPosition(id, lat, lon, <<speed>>, <<course>>, <<>>, <<>>) :
        id \in {<<"d", "1">>, <<"8", "6", "A">>},
        lat \in {40000000, -3500000}, lon \in {-3000000, 120250000},
        speed \in {0, 50000000}, course \in {90000000, 359500000}}

\* one pass of the loop of handle_client over the line data, on an empty
\* table: what it logs and the rows it leaves
Ingested(data) ==
    IF Raised(BytesDecode(data)) THEN [outcome |-> "unhandled", rows |-> <<>>]
    ELSE CHOOSE res \in
             {IF Raised(decoded) THEN [outcome |-> "decode_error", rows |-> <<>>]
              ELSE [outcome |-> "saved",
                    rows |-> SavePosition(<<>>, Value(decoded), "c1", 1)] :
                  decoded \in {DecodeLine(data)}} : TRUE

\* the line a device writes for p in the tag-value variant:
\* f"teltonika|{teltonika.simulate_payload(p).decode()}\n".encode()
TeltonikaLine(p) ==
    Encode(Str_teltonika \o <<"|">>) \o TeltonikaSimulate(p, UtcNow) \o <<10>>

\* positions sent through the tag-value variant: ids with the characters the
\* line format gives a meaning to, absent and present optional fields,
\* timestamps with and without microseconds
TeltonikaIds ==
    {<<"d", "1">>, <<"a", "|", "b">>, <<" ", "x", "\"", ",">>, <<"\\">>}
TeltonikaStamps ==
    {<<>>, <<<<2024, 2, 29, 23, 59, 59, 0>>>>, <<<<2023, 12, 31, 1, 2, 3, 45>>>>}
TeltonikaPositions ==
    {DecodedPosition(id, lat, 0 - lat, speed, <<>>, event, stamp) :
        id \in TeltonikaIds, lat \in {19432600, -500000},
        speed \in {<<>>, <<45500000>>},
        event \in {<<>>, <<<<"t", "c", "p">>>>, <<<<>>>>},
        stamp \in TeltonikaStamps}
    \cup
    {DecodedPosition(<<"d", "2">>, 0, -99133200, <<0>>, <<course>>, <<>>, <<>>) :
        course \in {0, 180000000}}

\* positions sent through the fixed-layout variant: whole micro-degrees of
\* both signs up to the ends of the ranges, ids that are and are not eight
\* lower-case hexadecimal digits
ConcoxIds ==
    {<<"0", "a", "0", "b", "0", "c", "0", "d">>, <<"d", "1">>,
     <<"0", "A", "0", "B", "0", "C", "0", "D">>, <<"x", "y", "z">>,
     <<"0", "a", "0", "b", "0", "c", "0", "d", "0", "e">>,
     <<"a", "b", " ", "c", "d", " ", "e", "f">>}
ConcoxPositions ==
    {DecodedPosition(id, lat, lon, <<>>, <<>>, <<>>, <<>>) :
        id \in ConcoxIds,
        lat \in {90000000, -90000000, 4004872, -4004872, 0, 19432600},
        lon \in {180000000, -180000000, -99133200, 1}}

\* ConcoxAdapter().decode_message(ConcoxAdapter().simulate_payload(p))
ConcoxRoundTrip(p) ==
    LET payload == ConcoxSimulate(p)
    IN IF Raised(payload) THEN payload ELSE ConcoxDecode(Value(payload))

\* lines of the generic comma-delimited form: up to MaxFields fields, each
\* empty, a name, a number (signed, with blanks) or text that is no number
MaxFields == 5
CsvFields ==
    {<<>>, <<"d", "1">>, <<"-", "3", ".", "5">>, <<" ", "7">>, <<"x">>}
CsvRecords == UNION {[1..n -> CsvFields] : n \in 1..MaxFields}

\* ",".join(fields)
RECURSIVE JoinComma(_)
JoinComma(fields) ==
    IF Len(fields) = 1 THEN fields[1]
    ELSE fields[1] \o <<",">> \o JoinComma(Tail(fields))

\* tag-value records with each key written or left out: rec.k is <<>> for a
\* key that is left out, <<value>> for one that is written
TeltonikaRecords ==
    [id : {<<>>, <<JStr(<<"d", "1">>)>>},
     lat : {<<>>, <<JFloat(40000000)>>},
     lon : {<<>>, <<JFloat(-3000000)>>},
     speed : {<<>>, <<JNull>>, <<JFloat(50000000)>>},
     course : {<<>>, <<JInt(90)>>},
     event : {<<>>, <<JStr(<<"t", "c", "p">>)>>},
     ts : {<<>>, <<JStr(<<"2", "0", "2", "4", "-", "0", "2", "-", "2", "9", "T",
                          "2", "3", ":", "5", "9", ":", "5", "9">>)>>}]

\* the member <<key, value>> of a record, if the key is written
Member(key, value) == IF value = <<>> THEN <<>> ELSE << <<key, value[1]>> >>

\* the members of the JSON object of rec
RecordMembers(rec) ==
    Member(Key_id, rec.id) \o Member(Key_lat, rec.lat) \o Member(Key_lon, rec.lon)
    \o Member(Key_speed, rec.speed) \o Member(Key_course, rec.course)
    \o Member(Key_event, rec.event) \o Member(Key_ts, rec.ts)

\* fixed-position records cut after any number of fields: the fields of a
\* full record are the header, the id, five unused, latitude, longitude, two
\* unused, speed and course
QueclinkFull ==
    {<<<<"+", "R", "E", "S", "P">>, id, <<>>, <<>>, <<>>, <<>>, <<>>,
       <<"4", "0", ".", "5">>, <<"-", "3", ".", "0">>, <<>>, <<>>, speed,
       <<"9", "0", ".", "0">>>> :
        id \in {<<"d", "1">>, <<"8", "6", "A">>},
        speed \in {<<"5", "0", ".", "0">>, <<"0">>}}
QueclinkRecords == UNION {{SubSeq(full, 1, n) : n \in 1..Len(full)} : full \in QueclinkFull}

\* protocol|payload and the newline, as bytes
TaggedLine(protocol, payload) == Encode(protocol \o <<"|">> \o payload) \o <<10>>

\* lines of every variant that a device may write, ids written, empty and
\* left out: comma-delimited records of three fields, tag-value records,
\* fixed-position records and fixed-layout frames
IngestLines ==
    {Sent(JoinComma(fields)) : fields \in [1..3 -> CsvFields]}
    \cup {TaggedLine(Str_teltonika, JsonDumps(RecordMembers(rec))) :
              rec \in {r \in TeltonikaRecords : r.speed = <<>> /\ r.course = <<>>}}
    \cup {TaggedLine(Str_teltonika,
                     JsonDumps(<< <<Key_id, JStr(<<>>)>>, <<Key_lat, JInt(1)>>,
                                  <<Key_lon, JInt(2)>> >>))}
    \cup {TaggedLine(Str_queclink, JoinComma(fields)) : fields \in QueclinkRecords}
    \cup {TaggedLine(Str_queclink,
                     JoinComma(<<<<"+", "R", "E", "S", "P">>, <<>>, <<>>, <<>>, <<>>,
                                 <<>>, <<>>, <<"1">>, <<"2">>>>))}
    \cup {TaggedLine(Str_concox, Value(BytesDecode(payload))) :
              payload \in {<<65, 65, 65, 65>>,
                           Encode(<<"A", "Q", "I", "D", "B", "P", "/", "/", "/", "/",
                                    "8", "A", "A", "A", "A", "B">>)}}

\* GPSServer._decode_message(message)
CallDecodeMessage(message) ==
    /\ call.fn = "none"
    /\ call' = [fn |-> "_decode_message", args |-> <<message>>]
    /\ result' = [route |-> Route(message), out |-> DecodeMessage(message)]
    /\ UNCHANGED <<serverVars, broadcasterVars, notifyVars, webVars>>

\* decode_with(tag, payload), the tag being name written with capitals at mask
CallDecodeWith(name, mask, payload) ==
    /\ call.fn = "none"
    /\ call' = [fn |-> "decode_with", args |-> <<name, mask, payload>>]
    /\ result' = decode_with(ApplyCase(name, mask), payload)
    /\ UNCHANGED <<serverVars, broadcasterVars, notifyVars, webVars>>

\* ConcoxAdapter().decode_message(payload)
CallConcoxDecode(payload) ==
    /\ call.fn = "none"
    /\ call' = [fn |-> "concox.decode_message", args |-> <<payload>>]
    /\ result' = ConcoxDecode(payload)
    /\ UNCHANGED <<serverVars, broadcasterVars, notifyVars, webVars>>

\* QueclinkAdapter().decode_message(QueclinkAdapter().simulate_payload(p))
CallQueclinkRoundTrip(p) ==
    /\ call.fn = "none"
    /\ call' = [fn |-> "queclink.round_trip", args |-> <<p>>]
    /\ result' = QueclinkDecode(QueclinkSimulate(p))
    /\ UNCHANGED <<serverVars, broadcasterVars, notifyVars, webVars>>

\* GPSServer._decode_message(",".join(fields))
CallDecodeCsv(fields) ==
    /\ call.fn = "none"
    /\ call' = [fn |-> "_decode_message.csv", args |-> <<fields>>]
    /\ result' = DecodeMessage(JoinComma(fields))
    /\ UNCHANGED <<serverVars, broadcasterVars, notifyVars, webVars>>

\* TeltonikaAdapter().decode_message(json.dumps(rec).encode())
CallTeltonikaDecode(rec) ==
    /\ call.fn = "none"
    /\ call' = [fn |-> "teltonika.decode_message", args |-> <<rec>>]
    /\ result' = TeltonikaDecode(Encode(JsonDumps(RecordMembers(rec))))
    /\ UNCHANGED <<serverVars, broadcasterVars, notifyVars, webVars>>

\* QueclinkAdapter().decode_message(",".join(fields).encode())
CallQueclinkDecode(fields) ==
    /\ call.fn = "none"
    /\ call' = [fn |-> "queclink.decode_message", args |-> <<fields>>]
    /\ result' = QueclinkDecode(Encode(JoinComma(fields)))
    /\ UNCHANGED <<serverVars, broadcasterVars, notifyVars, webVars>>

\* a device writes the line data; handle_client reads and handles it
CallIngest(data) ==
    /\ call.fn = "none"
    /\ call' = [fn |-> "handle_client.line", args |-> <<data>>]
    /\ result' = Ingested(data)
    /\ UNCHANGED <<serverVars, broadcasterVars, notifyVars, webVars>>

\* the fixed-layout round trip of p
CallConcoxRoundTrip(p) ==
    /\ call.fn = "none"
    /\ call' = [fn |-> "concox.round_trip", args |-> <<p>>]
    /\ result' = ConcoxRoundTrip(p)
    /\ UNCHANGED <<serverVars, broadcasterVars, notifyVars, webVars>>

\* a device writes the line of p; handle_client reads and handles it
CallTeltonikaIngest(p) ==
    /\ call.fn = "none"
    /\ call' = [fn |-> "teltonika.ingest", args |-> <<p>>]
    /\ result' = Ingested(TeltonikaLine(p))
    /\ UNCHANGED <<serverVars, broadcasterVars, notifyVars, webVars>>

\* no call has been made yet: each behaviour makes one call
\* the texts of the messages that go through the round trip: with a quote,
\* a backslash, a brace, a colon and a comma in them
RoundTripTexts ==
    {<<"p", "u", "s", "h">>, <<"a", "\"", "b">>, <<"\\", "n">>,
     <<"}", ",", " ", "{", ":">>, <<>>}

\* the metadata of those messages: no dict, an empty one, values that are
\* a str, the empty str, an int and None, and two members
RoundTripMetadata ==
    {JNull, JObj(<<>>),
     JObj(<< <<Key_device_token, JStr(<<"a", "\"", "}">>)>> >>),
     JObj(<< <<Key_platform, JInt(-7)>> >>),
     JObj(<< <<Key_platform, JStr(<<>>)>> >>),
     JObj(<< <<Key_device_token, JNull>>, <<Key_platform, JStr(<<"f", "c", "m">>)>> >>)}

RoundTripMessages ==
    {NotificationMessage(JStr(channel), JStr(recipient), subject, body, metadata) :
        channel \in {Chan_push, <<"a", "\"", "b">>},
        recipient \in RoundTripTexts,
        subject \in {JNull, JStr(<<"}", ",", " ", "{", ":">>)},
        body \in {JNull, JStr(<<>>), JStr(<<"\\", "n">>)},
        metadata \in RoundTripMetadata}

\* NotificationMessage.from_json(message.to_json())
CallMessageRoundTrip(message) ==
    /\ call.fn = "none"
    /\ call' = [fn |-> "message.round_trip", args |-> <<message>>]
    /\ result' = FromJson(ToJson(message))
    /\ UNCHANGED <<serverVars, broadcasterVars, notifyVars, webVars>>

\* NotificationMessage.from_json(raw)
CallFromJson(raw) ==
    /\ call.fn = "none"
    /\ call' = [fn |-> "message.from_json", args |-> <<raw>>]
    /\ result' = FromJson(raw)
    /\ UNCHANGED <<serverVars, broadcasterVars, notifyVars, webVars>>

Idle == call.fn = "none"

\* the notification message written to JSON and read back
NextMessages ==
    \/ Idle /\ \E message \in RoundTripMessages : CallMessageRoundTrip(message)
    \/ Idle /\ \E raw \in ForeignPayloads : CallFromJson(raw)

SpecMessages == Init /\ [][NextMessages]_vars

NextDecode ==
    \/ Idle /\ \E message \in Messages : CallDecodeMessage(message)
    \/ Idle /\ \E name \in TagNames : \E mask \in CaseMasks : \E payload \in TagPayloads :
         CallDecodeWith(name, mask, payload)
    \/ Idle /\ \E payload \in B64Inputs : CallConcoxDecode(payload)
    \/ Idle /\ \E p \in RoundTripPositions : CallQueclinkRoundTrip(p)
    \/ Idle /\ \E p \in TeltonikaPositions : CallTeltonikaIngest(p)

SpecDecode == Init /\ [][NextDecode]_vars

\* the decoders called on records with fields written, empty and left out
NextRecords ==
    \/ Idle /\ \E p \in ConcoxPositions : CallConcoxRoundTrip(p)
    \/ Idle /\ \E fields \in CsvRecords : CallDecodeCsv(fields)
    \/ Idle /\ \E rec \in TeltonikaRecords : CallTeltonikaDecode(rec)
    \/ Idle /\ \E fields \in QueclinkRecords : CallQueclinkDecode(fields)
    \/ Idle /\ \E data \in IngestLines : CallIngest(data)

SpecRecords == Init /\ [][NextRecords]_vars

----------------------------------------------------------------------------
(* The rate limiter of the HTTP middleware *)

\* RequestRateLimiter(limit_per_minute): the limit of the limiter checked
limit_per_minute == 2

\* how many calls of allow there are in all
MaxAllows == 6

\* the instants at which requests arrive, in seconds after the first
Elapsed == {1, 59, 60, 61, 120, 121}

\* window = now - 60
Window(now) == now - 60

\* (a variant that drops the timestamp that is as old as the window)
KeptAfter(timestamps, window) == SelectSeq(timestamps, LAMBDA ts : ts > window)

\* [ts for ts in self._counters.get(client_ip, []) if ts >= window]
Kept(timestamps, window) == SelectSeq(timestamps, LAMBDA ts : ts >= window)

notLimiterVars ==
    <<serverVars, broadcasterVars, callVars, notifyVars, ingestVars, loginVars>>

\* RequestRateLimiter.allow(client_ip): the timestamps of the window and the
\* one of this call are stored, whatever the answer
Allow(client_ip) ==
    /\ Len(allows) < MaxAllows
    /\ \E now \in {utc_now} : \E window \in {Window(now)} :
       \E timestamps \in {Append(Kept(_counters[client_ip], window), now)} :
          /\ _counters' = [_counters EXCEPT ![client_ip] = timestamps]
          /\ allows' = Append(allows,
                 [client_ip |-> client_ip, now |-> now,
                  result |-> Len(timestamps) <= limit_per_minute])
    /\ UNCHANGED <<utc_now, notLimiterVars>>

\* time passes between two requests
ClockAdvances(t) ==
    /\ StartTime + t > utc_now
    /\ utc_now' = StartTime + t
    /\ UNCHANGED <<_counters, allows, notLimiterVars>>

NextLimiter ==
    \/ \E client_ip \in Clients : Allow(client_ip)
    \/ \E t \in Elapsed : ClockAdvances(t)

SpecLimiter == Init /\ [][NextLimiter]_vars

----------------------------------------------------------------------------
(* The limit on login entry *)

MAX_ATTEMPTS == 5
BLOCK_TIME == 300

\* how many calls of limit_login_attempts there are in all
MaxLogins == 7

\* the seconds between a request and the one before it: the first address
\* comes back soon, just before, at and just after the end of the block;
\* the second address is there to run beside it
Delays(client_ip) ==
    IF client_ip = "10.0.0.1" THEN {1, BLOCK_TIME - 1, BLOCK_TIME, BLOCK_TIME + 1}
    ELSE {1}

\* login_attempts.get(client_ip, {"count": 0, "time": 0})
Attempts(entry, client_ip) ==
    IF entry[client_ip] = <<>> THEN [count |-> 0, time |-> 0]
    ELSE entry[client_ip][1]

\* current_time - attempts["time"] > BLOCK_TIME
Expired(current_time, entry) == current_time - entry.time > BLOCK_TIME

\* attempts["count"] >= MAX_ATTEMPTS and current_time - attempts["time"] < BLOCK_TIME
Refused(current_time, entry) ==
    entry.count >= MAX_ATTEMPTS /\ current_time - entry.time < BLOCK_TIME

notLoginVars ==
    <<serverVars, broadcasterVars, callVars, notifyVars, ingestVars, limiterVars>>

\* limit_login_attempts(request), for a request of client_ip that arrives
\* delay seconds after the request before it: HTTPException 429 when the
\* address is blocked; else the entry of the address is made anew or
\* counted up (KeyError when the address has no entry to count up)
LimitLoginAttempts(client_ip, delay) ==
    /\ Len(logins) < MaxLogins
    /\ time_now' = time_now + delay
    /\ \E current_time \in {time_now + delay} :
       \E entry \in {Attempts(login_attempts, client_ip)} :
       \E outcome \in {IF Refused(current_time, entry) THEN Raise("HTTPException 429")
                       ELSE IF Expired(current_time, entry) THEN Return(TRUE)
                       ELSE IF login_attempts[client_ip] = <<>> THEN Raise("KeyError")
                       ELSE Return(TRUE)} :
          /\ login_attempts' =
                IF Raised(outcome) THEN login_attempts
                ELSE IF Expired(current_time, entry)
                THEN [login_attempts EXCEPT ![client_ip] =
                         <<[count |-> 1, time |-> current_time]>>]
                ELSE [login_attempts EXCEPT ![client_ip] =
                         <<[count |-> entry.count + 1, time |-> current_time]>>]
          /\ logins' = Append(logins,
                 [client_ip |-> client_ip, current_time |-> current_time,
                  before |-> entry, outcome |-> outcome,
                  after |-> Attempts(login_attempts', client_ip)])
    /\ UNCHANGED notLoginVars

NextLogin ==
    \E client_ip \in Clients : \E delay \in Delays(client_ip) :
        LimitLoginAttempts(client_ip, delay)

SpecLogin == Init /\ [][NextLogin]_vars

----------------------------------------------------------------------------
(* The claims *)

\* the rows of the positions table that come from connection c
RowsOf(c) == SelectSeq(positions, LAMBDA r : r.conn = c)

\* everything handle_client keeps or changes for connection c
HandlerState(c) ==
    <<task[c], stream[c], peer_eof[c], transport_closed[c], log[c], RowsOf(c)>>

\* C1: a line whose decoding or persistence fails never ends the read loop of
\* handle_client: after any line that was not saved, the handler of that
\* connection is still reading, or has stopped at the end of the stream.
C1_FailedLineKeepsLoop ==
    \A c \in Conns : \A k \in 1..Len(log[c]) :
        log[c][k].outcome \in {"unhandled", "decode_error", "save_error"}
            => task[c] # "failed"

\* C2: a malformed line (unrecognized tag, malformed field, unparsable
\* tag-value payload, truncated record, bytes that are no text) persists
\* nothing: no row of the positions table comes from it.
C2_MalformedPersistsNothing ==
    \A c \in Conns : \A k \in 1..Len(log[c]) :
        log[c][k].data \in MalformedChunks
            => ~\E i \in 1..Len(positions) :
                   positions[i].conn = c /\ positions[i].lineno = k

\* C3: every position the connection server saves is also published to the
\* live broadcaster: it is on the broadcaster's event queue and was sent to
\* every registered websocket.
C3_SavedIsPublished ==
    \A i \in 1..Len(positions) :
        /\ \E k \in 1..Len(_event_queue) :
               /\ _event_queue[k].device_id = positions[i].device_id
               /\ _event_queue[k].latitude = positions[i].latitude
               /\ _event_queue[k].longitude = positions[i].longitude
        /\ \A w \in _connections : \E k \in 1..Len(ws_messages[w]) :
               /\ ws_messages[w][k].device_id = positions[i].device_id
               /\ ws_messages[w][k].latitude = positions[i].latitude
               /\ ws_messages[w][k].longitude = positions[i].longitude

\* C4: the lines of one connection are read in the order they arrived, and
\* the rows saved from one connection are in the table in that order.
C4_ArrivalOrder ==
    \A c \in Conns :
        /\ \A k \in 1..Len(log[c]) :
               log[c][k].outcome # "eof" => log[c][k].data = sent[c][k]
        /\ \A i, j \in 1..Len(positions) :
               i < j /\ positions[i].conn = c /\ positions[j].conn = c
                   => positions[i].lineno < positions[j].lineno

\* C4 happens: two rows of one connection with a row of the other connection
\* saved between them.
C4_Interleaved ==
    \E i, k, j \in 1..Len(positions) :
        /\ i < k /\ k < j
        /\ positions[i].conn = positions[j].conn
        /\ positions[k].conn # positions[i].conn

\* C5: connections are handled independently.  While the handler of one
\* connection waits in readline, another connection can be accepted and a
\* line that is ready on another connection can be processed; and no step
\* changes what the handlers of two connections keep.
C5_Independent ==
    /\ [](\A c, d \in Conns :
            c # d /\ task[c] = "reading" =>
                /\ task[d] = "none" => ENABLED Accept(d)
                /\ task[d] = "reading" /\ LineReady(d) => ENABLED HandleClient(d))
    /\ [][\A c, d \in Conns :
            c # d /\ HandlerState(c)' # HandlerState(c)
                => HandlerState(d)' = HandlerState(d)]_vars

\* C5 happens: one handler waits for a line while the other connection, which
\* also sent a line that was dropped, has a position saved.
C5_OtherProgresses ==
    \E c, d \in Conns :
        /\ c # d
        /\ task[c] = "reading" /\ ~LineReady(c)
        /\ RowsOf(d) # <<>>
        /\ \E k \in 1..Len(log[d]) : log[d][k].outcome = "decode_error"

\* C6: once the peer has closed and the handler of the connection has
\* stopped, the server has closed the transport of that connection.
C6_EofClosesTransport ==
    \A c \in Conns :
        peer_eof[c] /\ task[c] \in {"done", "failed"} => transport_closed[c]

\* C7: _decode_message routes a message to the adapters exactly when it
\* contains "|"; the tag is the text before the first "|", stripped, and the
\* payload is all the text after it, later "|" included; a message without
\* "|" goes to the generic comma-separated decoder.
C7_Routing ==
    call.fn = "_decode_message" =>
        LET m == call.args[1] IN
        /\ (result.route.to = "decode_with") <=> ("|" \in Range(m))
        /\ "|" \in Range(m) =>
               \E k \in 1..Len(m) :
                   /\ m[k] = "|" /\ \A j \in 1..(k - 1) : m[j] # "|"
                   /\ result.route.protocol = Strip(SubSeq(m, 1, k - 1))
                   /\ result.route.raw = Encode(SubSeq(m, k + 1, Len(m)))
                   /\ result.out = decode_with(Strip(SubSeq(m, 1, k - 1)),
                                               Encode(SubSeq(m, k + 1, Len(m))))
        /\ "|" \notin Range(m) =>
               /\ result.route.to = "csv"
               /\ result.out = DecodeCsv(m)

\* C7 happens: a message with two "|" was routed to the adapters, and the
\* second "|" is in the payload.
C7_SecondBarInPayload ==
    /\ call.fn = "_decode_message"
    /\ Cardinality({i \in 1..Len(call.args[1]) : call.args[1][i] = "|"}) = 2
    /\ result.route.to = "decode_with"
    /\ Ord("|") \in Range(result.route.raw)

\* C8: decode_with fails with ValueError, and returns no position, for every
\* tag that is not registered; a registered tag is found however it is
\* capitalised, and the result is what its adapter decodes.
C8_UnknownTagFails ==
    call.fn = "decode_with" =>
        LET name == call.args[1]
            payload == call.args[3]
        IN /\ name \notin AdapterNames =>
                  result.exc = "ValueError" /\ result.val = <<>>
           /\ name \in AdapterNames => result = decode_message(name, payload)

\* C8 happens: a registered tag written with capitals was decoded.
C8_CapitalisedTagFound ==
    /\ call.fn = "decode_with"
    /\ call.args[1] \in AdapterNames
    /\ call.args[2] # {}
    /\ ApplyCase(call.args[1], call.args[2]) # call.args[1]
    /\ ~Raised(result)

\* C9: for any input shorter than 12 bytes, valid base64 or not, and for any
\* input whose frame is shorter than 12 bytes, ConcoxAdapter.decode_message
\* returns the sentinel position ("unknown", 0, 0) and raises nothing.
C9_ShortFrameSentinel ==
    call.fn = "concox.decode_message" =>
        LET payload == call.args[1]
            frame == IF Raised(B64Decode(payload)) THEN payload
                     ELSE Value(B64Decode(payload))
        IN /\ ~Raised(result)
           /\ Len(payload) < MinFrameLen \/ Len(frame) < MinFrameLen =>
                  result = Return(DecodedPosition(Str_unknown, 0, 0,
                                                  <<>>, <<>>, <<>>, <<>>))

\* C9 happens: an input that is not valid base64, shorter than 12 bytes, gave
\* the sentinel position.
C9_InvalidBase64Sentinel ==
    /\ call.fn = "concox.decode_message"
    /\ call.args[1] # <<>>
    /\ Len(call.args[1]) < MinFrameLen
    /\ Raised(B64Decode(call.args[1]))
    /\ ~Raised(result)
    /\ Value(result).device_id = Str_unknown

\* C10: QueclinkAdapter.decode_message(simulate_payload(p)) gives back the
\* device id, latitude, longitude, speed and course of p.
C10_QueclinkRoundTrip ==
    call.fn = "queclink.round_trip" =>
        /\ ~Raised(result)
        /\ Value(result).device_id = call.args[1].device_id
        /\ Value(result).latitude = call.args[1].latitude
        /\ Value(result).longitude = call.args[1].longitude
        /\ Value(result).speed = call.args[1].speed
        /\ Value(result).course = call.args[1].course

\* C11: the line "teltonika|" + simulate_payload(p), sent to the connection
\* server, leaves one row with p's device id, latitude, longitude, speed,
\* course and event tag, and with p's timestamp when p has one.
C11_TeltonikaIngest ==
    call.fn = "teltonika.ingest" =>
        LET p == call.args[1] IN
        /\ result.outcome = "saved"
        /\ Len(result.rows) = 1
        /\ result.rows[1].device_id = p.device_id
        /\ result.rows[1].latitude = p.latitude
        /\ result.rows[1].longitude = p.longitude
        /\ result.rows[1].speed = p.speed
        /\ result.rows[1].course = p.course
        /\ result.rows[1].event_type = p.event_type
        /\ p.timestamp # <<>> => result.rows[1].timestamp = p.timestamp[1]

\* C11 happens: a position whose id has a "|" and whose timestamp has
\* microseconds was sent and saved.
C11_BarAndMicroseconds ==
    /\ call.fn = "teltonika.ingest"
    /\ "|" \in Range(call.args[1].device_id)
    /\ call.args[1].timestamp # <<>>
    /\ call.args[1].timestamp[1][7] # 0
    /\ result.outcome = "saved"

\* C12: ConcoxAdapter.decode_message(simulate_payload(p)), for p with whole
\* micro-degree coordinates inside the ranges, returns p's device id and
\* coordinates within one micro-degree of p's, and the scaled coordinates fit
\* a signed 32-bit field.
C12_ConcoxRoundTrip ==
    call.fn = "concox.round_trip" =>
        LET p == call.args[1] IN
        /\ ~Raised(result)
        /\ Value(result).device_id = p.device_id
        /\ Value(result).latitude - p.latitude \in -1..1
        /\ Value(result).longitude - p.longitude \in -1..1
        /\ ScaledInt(p.latitude) \in -2147483647..2147483647
        /\ ScaledInt(p.longitude) \in -2147483647..2147483647

\* the optional numeric field i of a record: its value, absent when the
\* record has no field i or the field is empty or is no number
OptionalField(fields, i) ==
    IF Len(fields) < i THEN <<>> ELSE ParseFloat(fields[i])

\* C13: for a line without "|", the first three comma-separated fields are
\* the device id, latitude and longitude, the fourth and fifth are speed and
\* course, absent when missing, empty or not a number; a line with fewer than
\* three fields or a latitude or longitude that is no number is an error.
C13_CsvDecode ==
    call.fn = "_decode_message.csv" =>
        LET fields == call.args[1] IN
        IF Len(fields) < 3 \/ ParseFloat(fields[2]) = <<>> \/ ParseFloat(fields[3]) = <<>>
        THEN Raised(result)
        ELSE /\ ~Raised(result)
             /\ Value(result).device_id = fields[1]
             /\ <<Value(result).latitude>> = ParseFloat(fields[2])
             /\ <<Value(result).longitude>> = ParseFloat(fields[3])
             /\ Value(result).speed = OptionalField(fields, 4)
             /\ Value(result).course = OptionalField(fields, 5)

\* C13 happens: a record of five fields whose speed is no number and whose
\* course is a number was decoded, with the speed absent and the course set.
C13_BadSpeedGoodCourse ==
    /\ call.fn = "_decode_message.csv"
    /\ Len(call.args[1]) = 5
    /\ call.args[1][4] = <<"x">>
    /\ ~Raised(result)
    /\ Value(result).speed = <<>>
    /\ Value(result).course = <<7000000>>

\* C14: a tag-value record that parses decodes without error; a latitude or
\* longitude key that is left out gives 0, speed, course and event keys that
\* are left out give absent, and a timestamp string that is written becomes
\* the position's timestamp.
C14_TeltonikaMissingKeys ==
    call.fn = "teltonika.decode_message" =>
        LET rec == call.args[1] IN
        /\ ~Raised(result)
        /\ rec.lat = <<>> => Value(result).latitude = 0
        /\ rec.lon = <<>> => Value(result).longitude = 0
        /\ rec.speed = <<>> => Value(result).speed = <<>>
        /\ rec.course = <<>> => Value(result).course = <<>>
        /\ rec.event = <<>> => Value(result).event_type = <<>>
        /\ rec.ts # <<>> => Value(result).timestamp = <<<<2024, 2, 29, 23, 59, 59, 0>>>>

\* C15: a fixed-position record that ends before its longitude (fewer than
\* nine fields) is rejected with an error; one that has its id, latitude and
\* longitude decodes, with the speed absent when it ends before field 12 and
\* the course absent when it ends before field 13.
C15_QueclinkShortRecord ==
    call.fn = "queclink.decode_message" =>
        IF Len(call.args[1]) < 9 THEN Raised(result)
        ELSE /\ ~Raised(result)
             /\ Len(call.args[1]) < 12 => Value(result).speed = <<>>
             /\ Len(call.args[1]) < 13 => Value(result).course = <<>>

\* C16: every row that handle_client saves, whatever the line and the variant
\* that decoded it, has a device id that is not empty and a timestamp: the
\* one the device wrote, or else the time of the save.
C16_PersistedHasIdAndTimestamp ==
    call.fn = "handle_client.line" =>
        \A i \in 1..Len(result.rows) :
            /\ result.rows[i].device_id # <<>>
            /\ result.rows[i].timestamp =
                   (IF Value(DecodeLine(call.args[1])).timestamp = <<>> THEN UtcNow
                    ELSE Value(DecodeLine(call.args[1])).timestamp[1])

\* how many times the payload n is in seq
Count(n, seq) == Cardinality({i \in 1..Len(seq) : seq[i] = n})

\* C17: a call of broadcast during which no other task changed the set of
\* connections does not raise, calls send_json once for every websocket that
\* was registered when it started and for no other, and every websocket whose
\* send returned has the payload once.
C17_PublishReachesActiveSet ==
    \A n \in Publishes :
        ~broadcasts[n].changed =>
            /\ broadcasts[n].pc # "raised"
            /\ broadcasts[n].pc = "returned" =>
                  \A w \in Sockets :
                     /\ Count(n, attempts[w]) =
                           (IF w \in broadcasts[n].start THEN 1 ELSE 0)
                     /\ Count(n, ws_messages[w]) =
                           (IF w \in broadcasts[n].start \ Range(broadcasts[n].stale)
                            THEN 1 ELSE 0)

\* C17 happens: w1 and w2 were registered, the first payload reached both,
\* w1 was unregistered, the second payload reached w2 only.
C17_BothThenOne ==
    /\ broadcasts[1].pc = "returned" /\ broadcasts[2].pc = "returned"
    /\ broadcasts[1].start = {"w1", "w2"} /\ broadcasts[2].start = {"w2"}
    /\ ~broadcasts[1].changed /\ ~broadcasts[2].changed
    /\ ws_messages["w1"] = <<1>>
    /\ ws_messages["w2"] = <<1, 2>>

\* C18: a connection whose send failed in a call of broadcast stays in the
\* set while the call is still going through the connections, is out of the
\* set when the call has returned, and no call started after that one ended
\* sends to it, unless it was registered again.
C18_FailedIsPruned ==
    \A n \in Publishes :
        /\ (broadcasts[n].pc = "sending" /\ ~broadcasts[n].changed) =>
               Range(broadcasts[n].stale) \subseteq _connections
        /\ broadcasts[n].pc = "returned" =>
               broadcasts[n].failed \cap _connections = {}
        /\ broadcasts[n].pc = "sending" =>
               broadcasts[n].cur \notin broadcasts[n].barred

\* C19: a call of broadcast in which some sends failed does not raise, and
\* every other websocket registered when it started has the payload once.
C19_FailuresAreIsolated ==
    \A n \in Ended :
        broadcasts[n].stale # <<>> =>
            /\ broadcasts[n].pc = "returned"
            /\ ~broadcasts[n].changed =>
                  \A w \in broadcasts[n].start \ Range(broadcasts[n].stale) :
                     Count(n, ws_messages[w]) = 1

\* C20: a call of broadcast that was suspended in a send while another task
\* registered or unregistered a connection, or another call of broadcast
\* removed its stale connections, does not raise, calls send_json for every
\* connection that was registered when it started and was not unregistered
\* since, and puts the payload on the queue.
C20_SnapshotIteration ==
    \A n \in Publishes :
        broadcasts[n].changed =>
            /\ broadcasts[n].pc # "raised"
            /\ broadcasts[n].pc = "returned" =>
                  /\ n \in Range(_event_queue)
                  /\ \A w \in broadcasts[n].kept : Count(n, attempts[w]) >= 1

\* C21: unregister of a websocket that is not in the set raises nothing and
\* changes nothing, and every unregister leaves the membership of the other
\* websockets and the event queue as they were; the unregister calls in
\* broadcast raise nothing either.
C21_UnregisterFrame ==
    [][/\ \A n \in Publishes : broadcasts'[n].error # "KeyError"
       /\ \A w \in Sockets : Unregister(w) =>
              /\ unregistered'.error = "none"
              /\ _connections' \ {w} = _connections \ {w}
              /\ _event_queue' = _event_queue
              /\ w \notin _connections =>
                     _connections' = _connections /\ broadcasts' = broadcasts]_vars

\* C21 happens: a websocket whose send had failed was pruned by a broadcast
\* that returned, and websocket_positions then unregistered it, while the
\* other websocket is in the set and the queue holds a payload.
C21_AbsentUnregister ==
    /\ unregistered.ws # ""
    /\ ~unregistered.found
    /\ unregistered.ws \notin _connections
    /\ \E n \in Publishes :
           /\ broadcasts[n].pc = "returned"
           /\ unregistered.ws \in Range(broadcasts[n].stale)
    /\ _connections # {}
    /\ _event_queue # <<>>

C23_QueuedOnceInOrder ==
    \A n \in Publishes :
        /\ broadcasts[n].pc = "returned" => Count(n, _event_queue) = 1
        /\ broadcasts[n].pc \in {"idle", "sending"} => Count(n, _event_queue) = 0
        /\ broadcasts[n].pc = "returned" =>
               \A m \in broadcasts[n].prior :
                   \E i, j \in 1..Len(_event_queue) :
                       i < j /\ _event_queue[i] = m /\ _event_queue[j] = n

\* C23 happens: a broadcast to two websockets, one of whose sends failed,
\* returned; a second one, called after it with one websocket in the set,
\* returned too, and the queue holds both payloads.
C23_TwoInARow ==
    /\ broadcasts[1].pc = "returned" /\ broadcasts[2].pc = "returned"
    /\ 1 \in broadcasts[2].prior
    /\ Cardinality(broadcasts[1].start) = 2
    /\ Cardinality(broadcasts[2].start) = 1
    /\ Len(broadcasts[1].stale) = 1
    /\ _event_queue = <<1, 2>>
\* how many times the event of payload n was yielded to the consumers in S
RECURSIVE YieldedTo(_, _)
YieldedTo(S, n) ==
    IF S = {} THEN 0
    ELSE LET s == CHOOSE x \in S : TRUE
         IN  Count(SseEvent(n), yielded[s]) + YieldedTo(S \ {s}, n)

\* C24: with several consumers of the stream at once, each payload that was
\* put on the event queue is either still in the queue or was yielded to
\* exactly one consumer, once; each consumer has its events in the order of
\* the queue; and no payload stays in the queue while a consumer waits
\* without one being woken.
C24_ConsumersSplitItems ==
    /\ \A n \in Publishes :
           Count(n, _event_queue) + YieldedTo(Streams, n) =
               IF broadcasts[n].pc = "returned" THEN 1 ELSE 0
    /\ \A s \in Streams : \A i, j \in 1..Len(yielded[s]) :
           i < j => yielded[s][i][2] < yielded[s][j][2]
    /\ (_event_queue # <<>> /\ \E s \in Streams : sse[s] = "waiting")
           => \E s \in Streams : sse[s] \in {"woken", "woken_cancelled"}

\* C24 happens: two consumers are on the stream, the queue is empty, and
\* each of them was yielded one of the two payloads.
C24_OneEach ==
    /\ \A s \in Streams : sse[s] \notin {"none", "closed"} /\ Len(yielded[s]) = 1
    /\ _event_queue = <<>>
    /\ \A n \in 1..2 : broadcasts[n].pc = "returned"
\* the channels the dispatcher has a provider for, and that provider
SupportedChannels == {JStr(Chan_email), JStr(Chan_sms), JStr(Chan_push)}
RegisteredFor(channel) ==
    CASE channel = JStr(Chan_email) -> "email_provider"
      [] channel = JStr(Chan_sms) -> "sms_provider"
      [] channel = JStr(Chan_push) -> "push_provider"

\* C25: a dispatch of a message whose channel is email, sms or push calls
\* the send of the provider of that channel once, with that message, calls
\* the send of no other provider, and ends as that send ended: it returns
\* what the send returned.
C25_DispatchRoutesOnce ==
    [][\A message \in DispatchedMessages :
          (DispatchCall(message) /\ message.channel \in SupportedChannels) =>
              LET p == RegisteredFor(message.channel)
              IN  /\ Len(invoked'[p]) = Len(invoked[p]) + 1
                  /\ invoked'[p][Len(invoked'[p])].message = message
                  /\ \A q \in Providers \ {p} : invoked'[q] = invoked[q]
                  /\ dispatched'[Len(dispatched')].outcome =
                         invoked'[p][Len(invoked'[p])].outcome]_vars

\* C25 happens: the one dispatch so far had the push message; the push
\* provider was called once and returned, the dispatch returned the same,
\* and the email and SMS providers were not called.
C25_PushOnly ==
    /\ Len(dispatched) = 1
    /\ dispatched[1].message = Msg_push
    /\ Len(invoked["push_provider"]) = 1
    /\ ~Raised(dispatched[1].outcome)
    /\ dispatched[1].outcome = invoked["push_provider"][1].outcome
    /\ Value(dispatched[1].outcome).target = JStr(<<"t">>)
    /\ invoked["email_provider"] = <<>> /\ invoked["sms_provider"] = <<>>

\* C26: a dispatch of a message whose channel is not email, sms or push
\* raises the unsupported-channel error (ValueError), and no provider is
\* ever called with such a message.
C26_UnsupportedChannel ==
    /\ \A i \in 1..Len(dispatched) :
           dispatched[i].message.channel \notin SupportedChannels
               => dispatched[i].outcome = Raise("ValueError")
    /\ \A p \in Providers : \A i \in 1..Len(invoked[p]) :
           invoked[p][i].message.channel \in SupportedChannels

\* C26 happens: dispatch was called with the channel carrier-pigeon, with a
\* channel that differs from email by case only and with the empty channel;
\* no provider was called.
C26_CarrierPigeon ==
    /\ {dispatched[i].message : i \in 1..Len(dispatched)} =
           {Msg_pigeon, Msg_Email, Msg_empty}
    /\ \A i \in 1..Len(dispatched) : dispatched[i].outcome = Raise("ValueError")
    /\ \A p \in Providers : invoked[p] = <<>>

\* C27: the messages that dequeue has returned are, in the order of their
\* return, the first messages that were enqueued, in the order of enqueue,
\* each once; the payloads that wait are those of the other messages, in
\* the order of enqueue: nothing is lost, whatever dequeues timed out.
C27_FifoLossless ==
    /\ Len(results) + Len(Pending) = Len(enqueued)
    /\ \A i \in 1..Len(results) : results[i].message = enqueued[i]
    /\ \A j \in 1..Len(Pending) :
           FromJson(Pending[j]) = Return(enqueued[Len(results) + j])

\* C27 happens: on the memory queue, the dequeue of one task has timed out
\* with nothing to take, two messages were enqueued, the first of them was
\* returned to the other task, which waited for it, and the second waits.
C27_TwoInOrder ==
    /\ _client = "none"
    /\ Len(enqueued) = 2 /\ Len(results) = 1 /\ Len(_memory_queue) = 1
    /\ results[1].by = Caller(2)
    /\ procs[Caller(1)].last = <<Return(JNull)>>
    /\ procs[Caller(1)].left = 0
    /\ procs[Caller(2)].pc = "waiting"

\* C28: a dequeue never raises and never blocks without end; it returns None
\* only when the timeout has elapsed with no message for it in the queue.
C28_DequeueBounded ==
    \A c \in Callers :
        /\ procs[c].pc # "blocked"
        /\ procs[c].last # <<>> =>
               /\ ~Raised(procs[c].last[1])
               /\ procs[c].last[1] = Return(JNull) => procs[c].left = 0

\* the worker tasks that are neither finished nor uncreated
Live == {w \in Workers : procs[w].pc \notin {"unborn", "ended"}}

\* C29: at most one worker task of the service is live at any time, and it
\* is the one _worker_task names; start_worker has created a task only when
\* there was none or the last one had finished.
C29_OneWorker ==
    /\ Cardinality(Live) <= 1
    /\ \A w \in Live : w = Worker(_worker_task)
    /\ _worker_task = Created

\* C29 happens: start_worker was called three times; the first call created
\* a task, one call found it running and did nothing, the task ended and
\* another call created the second task, which is live.
C29_StartedAgain ==
    /\ starts = 3
    /\ Created = 2
    /\ procs[Worker(1)].pc = "ended"
    /\ Live = {Worker(2)}

\* the dispatches of the worker tasks
WorkerDispatches == SelectSeq(dispatched, LAMBDA d : d.by \in Workers)

\* C30: a dispatch that raises in the worker loop does not end the loop (a
\* worker task ends by cancellation only); every message that a worker has
\* dequeued is dispatched at most once, and is not put back on the queue.
C30_WorkerSurvivesFailure ==
    /\ \A w \in Workers :
           procs[w].pc = "ended" => procs[w].last = <<Raise("CancelledError")>>
    /\ \A i, j \in 1..Len(WorkerDispatches) :
           WorkerDispatches[i].message = WorkerDispatches[j].message => i = j
    /\ \A i \in 1..Len(WorkerDispatches) :
           /\ \E r \in 1..Len(results) :
                  /\ results[r].message = WorkerDispatches[i].message
                  /\ results[r].by = WorkerDispatches[i].by
           /\ \A j \in 1..Len(Pending) :
                  FromJson(Pending[j]) # Return(WorkerDispatches[i].message)
    /\ Len(results) + Len(Pending) = Len(enqueued)

\* C30 happens: one worker task dispatched a message of an unsupported
\* channel, which raised ValueError, then a push message whose provider
\* raised, and is at its next dequeue.
C30_GoesOn ==
    /\ Len(WorkerDispatches) = 2
    /\ WorkerDispatches[1].outcome = Raise("ValueError")
    /\ WorkerDispatches[2].outcome = Raise("AttributeError")
    /\ WorkerDispatches[1].by = Worker(1) /\ WorkerDispatches[2].by = Worker(1)
    /\ procs[Worker(1)].pc \in {"ready", "waiting", "sleeping"}
    /\ Pending = <<>>

\* the worker tasks that are suspended in the send of a provider
InSend == {w \in Workers : procs[w].pc = "sending"}

\* C31: enqueue does not wait for a provider.  While a worker is suspended
\* in a provider's send, every enqueue the service is given can run to its
\* return; and every enqueue, whatever the worker does, stores the JSON text
\* of its message at the end of the queue in use, keeps what was waiting
\* there and leaves the worker where it is in the send.
C31_EnqueueIndependent ==
    /\ [](InSend # {}
           => \A message \in QueuedMessages : ENABLED QueueEnqueue(message))
    /\ [][\A message \in QueuedMessages :
             Enqueue(message)
             => /\ Pending' = Append(Pending, ToJson(message))
                /\ \A w \in InSend : procs'[w] = procs[w]]_vars

\* C31 witness: worker 1 took the only message of the queue and is now
\* suspended in the provider's send; a second message was enqueued since
\* and waits in the queue
C31_StoredDuringSend ==
    /\ procs[Worker(1)].pc = "sending"
    /\ procs[Worker(1)].left = 0
    /\ Len(enqueued) = 2
    /\ procs[Worker(1)].message = <<enqueued[1]>>
    /\ Pending = <<ToJson(enqueued[2])>>

\* a float that is a number between two bounds, in millionths
InRange(x, lo, hi) == ~x.nan /\ lo <= x.v /\ x.v <= hi

\* the rows of the positions table that call i of ingest_http committed
RowsOfIngest(i) ==
    {k \in 1..Len(positions) :
        positions[k].conn = "http" /\ positions[k].lineno = i}

\* C32: the position that a call of ingest_http persists and returns has the
\* latitude min(max(latitude, -90), 90) and the longitude
\* min(max(longitude, -180), 180) of the latitude and longitude submitted,
\* and lies in [-90, 90] x [-180, 180].
C32_IngestClamps ==
    \A i \in 1..Len(ingests) : \A k \in RowsOfIngest(i) :
        /\ positions[k].latitude =
               PyMin(PyMax(ingests[i].body.latitude, Num(-90 * Million)),
                     Num(90 * Million))
        /\ positions[k].longitude =
               PyMin(PyMax(ingests[i].body.longitude, Num(-180 * Million)),
                     Num(180 * Million))
        /\ ingests[i].payload # <<>>
        /\ ingests[i].payload[1].latitude = positions[k].latitude
        /\ ingests[i].payload[1].longitude = positions[k].longitude
        /\ InRange(positions[k].latitude, -90 * Million, 90 * Million)
        /\ InRange(positions[k].longitude, -180 * Million, 180 * Million)

\* the tokens of the registered devices
RegisteredTokens == {Devices[i].token : i \in 1..Len(Devices)}

\* the payloads that were sent, or tried to be sent, to a websocket, and
\* those put on the stream queue
Published ==
    UNION {Range(attempts[w]) \cup Range(ws_messages[w]) : w \in Sockets}
    \cup Range(_event_queue)

\* C33: a call of ingest_http whose token no registered device has raises
\* the invalid-token error (401) and has no effect: it commits no row, calls
\* no broadcast, and the step leaves the positions table, the websockets,
\* the connections and the stream queue as they are; whatever was published
\* comes from a call with a registered token.
C33_InvalidTokenNoEffect ==
    /\ [](/\ \A i \in 1..Len(ingests) :
               ingests[i].token \notin RegisteredTokens
               => /\ ingests[i].error = "HTTPException 401"
                  /\ ingests[i].position = <<>> /\ ingests[i].publish = 0
                  /\ RowsOfIngest(i) = {}
          /\ \A n \in Published :
               \E i \in 1..Len(ingests) :
                  ingests[i].publish = n /\ ingests[i].token \in RegisteredTokens)
    /\ [][\A token \in Tokens \ RegisteredTokens : \A payload \in IngestPayloads :
             IngestHttp(token, payload)
             => UNCHANGED <<positions, _connections, ws_messages, attempts,
                            _event_queue, broadcasts>>]_vars

\* C33 witness: with a websocket connected, a call with the token of a
\* device was served and published, and a second call with the token "bad"
\* was refused with 401; one row is in the table and one payload on the queue
C33_BadTokenAfterGood ==
    /\ Len(ingests) = 2
    /\ ingests[1].error = "none" /\ broadcasts[1].pc = "returned"
    /\ ingests[2].token = "bad" /\ ingests[2].error = "HTTPException 401"
    /\ _connections = {"w1"}
    /\ Len(positions) = 1 /\ _event_queue = <<1>>
    /\ ws_messages["w1"] = <<1>>

\* the device that has the token
OwnerOf(token) ==
    Devices[CHOOSE d \in 1..Len(Devices) : Devices[d].token = token].id

\* C34: a call of ingest_http with the token of a device commits exactly
\* one row, of that device, and broadcasts it: the call of broadcast does not
\* raise, its payload has the device id of that device and the fields of the
\* row, and when it has returned every websocket that was registered when
\* the call was made (and did not disconnect since) has the payload.
C34_IngestBroadcasts ==
    \A i \in 1..Len(ingests) :
        ingests[i].error = "none" =>
            /\ Cardinality(RowsOfIngest(i)) = 1
            /\ \A k \in RowsOfIngest(i) :
                  /\ positions[k].device_id = OwnerOf(ingests[i].token)
                  /\ ingests[i].payload = <<PositionResponse(positions[k])>>
                  /\ ingests[i].payload[1].device_id = OwnerOf(ingests[i].token)
            /\ ingests[i].publish \in Publishes
            /\ broadcasts[ingests[i].publish].pc # "raised"
            /\ broadcasts[ingests[i].publish].pc = "returned"
               => /\ ingests[i].publish \in Range(_event_queue)
                  /\ \A w \in broadcasts[ingests[i].publish].start
                              \cap broadcasts[ingests[i].publish].kept :
                        Count(ingests[i].publish, ws_messages[w]) >= 1

\* C35: NotificationMessage.from_json(m.to_json()) does not raise and
\* equals m in channel, recipient, subject, body and metadata.
C35_MessageRoundTrip ==
    call.fn = "message.round_trip" =>
        /\ ~Raised(result)
        /\ Value(result).channel = call.args[1].channel
        /\ Value(result).recipient = call.args[1].recipient
        /\ Value(result).subject = call.args[1].subject
        /\ Value(result).body = call.args[1].body
        /\ Value(result).metadata = call.args[1].metadata

\* C35 witness: a message whose texts hold a quote, braces, a colon and a
\* comma, with no body and with a metadata of two members, one of them
\* None, was written and read back
C35_QuotesAndBraces ==
    /\ call.fn = "message.round_trip"
    /\ call.args[1].channel = JStr(<<"a", "\"", "b">>)
    /\ call.args[1].recipient = JStr(<<"}", ",", " ", "{", ":">>)
    /\ call.args[1].body = JNull
    /\ call.args[1].metadata =
          JObj(<< <<Key_device_token, JNull>>, <<Key_platform, JStr(<<"f", "c", "m">>)>> >>)
    /\ ~Raised(result)
    /\ Value(result) = call.args[1]

\* C36: once start_worker has been called, every message that is enqueued
\* is handed to the dispatcher: while a message that was enqueued has not
\* been dispatched, a step of the worker task can be taken (so that the
\* task, scheduled fairly, comes to dispatch it); the messages the worker
\* tasks dispatch are the first messages enqueued, in the order of enqueue,
\* each one once.
C36_EventuallyDispatched ==
    /\ Len(WorkerDispatches) <= Len(enqueued)
    /\ \A i \in 1..Len(WorkerDispatches) :
           WorkerDispatches[i].message = enqueued[i]
    /\ (_worker_task # 0 /\ Len(WorkerDispatches) < Len(enqueued))
       => ENABLED WorkerStep

\* C37: the worker loop never stops on its own: a worker task that has
\* ended was cancelled, also after a dequeue that raised (a payload that is
\* no message, a backend error).
C37_WorkerSurvivesDequeueFailure ==
    \A k \in 1..MaxStarts :
        procs[Worker(k)].pc = "ended"
        => procs[Worker(k)].last = <<Raise("CancelledError")>>

\* the peer of connection c has closed after a last line without a newline
ClosedAfterPartial(c) ==
    /\ peer_eof[c] /\ sent[c] # <<>>
    /\ sent[c][Len(sent[c])] \in PartialChunks

\* C38: when the peer has closed after a last line without a newline and
\* the handler of the connection has stopped, the handler stopped at an
\* empty read, it has read that line as it was sent, the line was decoded,
\* and a row was committed for it when it is well-formed and the storage
\* took it.
C38_PartialLineHandled ==
    \A c \in Conns :
        ClosedAfterPartial(c) /\ task[c] \in {"done", "failed"}
        => /\ log[c][Len(log[c])].outcome = "eof"
           /\ Len(log[c]) = Len(sent[c]) + 1
           /\ \E k \in {Len(sent[c])} :
                 /\ log[c][k].data = sent[c][k]
                 /\ log[c][k].outcome \in {"saved", "save_error", "decode_error"}
                 /\ log[c][k].data = Encode(Line_csv)
                    => log[c][k].outcome \in {"saved", "save_error"}
                 /\ log[c][k].outcome = "saved"
                    => \E i \in 1..Len(positions) :
                          /\ positions[i].conn = c /\ positions[i].lineno = k
                          /\ positions[i].device_id = <<"d", "e", "v", "-", "1">>

\* the calls of allow up to the i-th that client_ip made at window or later
RecordedSince(i, client_ip, window) ==
    {j \in 1..i : allows[j].client_ip = client_ip /\ allows[j].now >= window}

\* C39: allow(ip) returns true exactly when the calls of that ip in the 60
\* seconds up to the call, this call and the calls that were denied
\* included, are limit_per_minute at most; the calls of other addresses do
\* not count.
C39_SlidingWindow ==
    \A i \in 1..Len(allows) :
        allows[i].result
        <=> Cardinality(RecordedSince(i, allows[i].client_ip, allows[i].now - 60))
                <= limit_per_minute

\* C39 happens: an address was denied its third call of a minute while the
\* other address was allowed at the same second; a call it made 60 seconds
\* after a denied one was denied too, and one made after the window had
\* passed was allowed.
C39_DeniedThenAllowed ==
    \E i, j, k, l \in 1..Len(allows) :
        /\ i < j /\ j < k /\ k < l
        /\ allows[i].client_ip = allows[k].client_ip
        /\ allows[l].client_ip = allows[i].client_ip
        /\ allows[j].client_ip # allows[i].client_ip
        /\ ~allows[i].result /\ allows[j].result /\ allows[j].now = allows[i].now
        /\ allows[k].now = allows[i].now + 60 /\ ~allows[k].result
        /\ allows[l].now > allows[k].now + 60 /\ allows[l].result

\* C40: a call of limit_login_attempts is rejected exactly when the address
\* has made MAX_ATTEMPTS accepted calls and BLOCK_TIME has not passed since
\* the last of them; a rejected call leaves the entry of the address as it
\* was; an accepted call that finds the block expired restarts the count at
\* 1, so that the count of an address is never above MAX_ATTEMPTS.
C40_BlockAndRestart ==
    \A i \in 1..Len(logins) :
        /\ Raised(logins[i].outcome)
           <=> /\ logins[i].before.count >= MAX_ATTEMPTS
               /\ logins[i].current_time - logins[i].before.time < BLOCK_TIME
        /\ Raised(logins[i].outcome)
           => /\ logins[i].outcome = Raise("HTTPException 429")
              /\ logins[i].after = logins[i].before
        /\ ~Raised(logins[i].outcome)
           => /\ logins[i].after.time = logins[i].current_time
              /\ logins[i].before.count >= MAX_ATTEMPTS => logins[i].after.count = 1
              /\ logins[i].after.count <= MAX_ATTEMPTS

====
